---------------------------- MODULE Spec2Model ----------------------------
(***************************************************************************)
(* Degree-anchored education extraction (src/src/parse_education.py).      *)
(*                                                                         *)
(* Text is modelled as a sequence of lines (the result of split('\n')),    *)
(* a line as a sequence of tokens.  A token is a maximal run of letters    *)
(* (kind "w"), a maximal run of digits (kind "n", kept as its value), one  *)
(* whitespace character (kind "s") or one other character (kind "p").      *)
(* Two neighbouring tokens of kinds "w"/"n" are glued (no character lies   *)
(* between them), which is where the regular expressions' \b and the       *)
(* preprocessing of parse_education act.  Every regular expression of the  *)
(* source is translated to a matcher over such token sequences.            *)
(***************************************************************************)
EXTENDS Integers, Sequences, FiniteSets, TLC

(***************************************************************************)
(* Tokens                                                                  *)
(***************************************************************************)
W(str) == [k |-> "w", s |-> str, n |-> 0]
N(num) == [k |-> "n", s |-> "", n |-> num]
P(chr) == [k |-> "p", s |-> chr, n |-> 0]
SP == [k |-> "s", s |-> " ", n |-> 0]

IsW(t) == t.k = "w"
IsN(t) == t.k = "n"
IsSpace(t) == t.k = "s"
\* \w of the regular expressions: a letter or a digit
IsWordChar(t) == t.k \in {"w", "n"}

\* the tokens of a sequence at positions a..b (empty when a > b)
Slice(toks, a, b) == IF a > b THEN <<>> ELSE SubSeq(toks, a, b)

RECURSIVE Flatten(_)
Flatten(seqs) ==
    IF seqs = <<>> THEN <<>> ELSE Head(seqs) \o Flatten(Tail(seqs))

\* ' '.join(parts)
RECURSIVE JoinSpace(_)
JoinSpace(parts) ==
    IF parts = <<>> THEN <<>>
    ELSE IF Len(parts) = 1 THEN parts[1]
    ELSE parts[1] \o <<SP>> \o JoinSpace(Tail(parts))

(***************************************************************************)
(* The lines the texts are made of                                         *)
(***************************************************************************)
\* ""
L_Blank ==
    <<>>

\* "Ph.D., Economics, University of Chicago, 2008-2012"
L_PhdChicago ==
    <<W("Ph"), P("."), W("D"), P("."), P(","), SP, W("Economics"), P(","),
      SP, W("University"), SP, W("of"), SP, W("Chicago"), P(","), SP,
      N(2008), P("-"), N(2012)>>

\* "The Wharton School, University of Pennsylvania"
L_Wharton ==
    <<W("The"), SP, W("Wharton"), SP, W("School"), P(","), SP,
      W("University"), SP, W("of"), SP, W("Pennsylvania")>>

\* "Ph.D., Finance"
L_PhdFinance ==
    <<W("Ph"), P("."), W("D"), P("."), P(","), SP, W("Finance")>>

\* "Assistant Professor, MBA program"
L_AsstProf ==
    <<W("Assistant"), SP, W("Professor"), P(","), SP, W("MBA"), SP,
      W("program")>>

\* "B.S. in Physics, MIT, 1999"
L_BsMit ==
    <<W("B"), P("."), W("S"), P("."), SP, W("in"), SP, W("Physics"),
      P(","), SP, W("MIT"), P(","), SP, N(1999)>>

\* "BA in History, Yale University"
L_BaYale ==
    <<W("BA"), SP, W("in"), SP, W("History"), P(","), SP, W("Yale"), SP,
      W("University")>>

\* "BA in HISTORY, Yale University"
L_BaYaleCaps ==
    <<W("BA"), SP, W("in"), SP, W("HISTORY"), P(","), SP, W("Yale"), SP,
      W("University")>>

\* "MBA, Harvard University, 2038"
L_MbaHarvard ==
    <<W("MBA"), P(","), SP, W("Harvard"), SP, W("University"), P(","), SP,
      N(2038)>>

\* "M.S. in the AI, MIT and Wharton, 2012-2008"
L_MsAi ==
    <<W("M"), P("."), W("S"), P("."), SP, W("in"), SP, W("the"), SP,
      W("AI"), P(","), SP, W("MIT"), SP, W("and"), SP, W("Wharton"),
      P(","), SP, N(2012), P("-"), N(2008)>>

\* "A.B., Brown University, June1995"
L_AbBrown ==
    <<W("A"), P("."), W("B"), P("."), P(","), SP, W("Brown"), SP,
      W("University"), P(","), SP, W("June"), N(1995)>>

\* "Jane Doe, MBA"
L_Name ==
    <<W("Jane"), SP, W("Doe"), P(","), SP, W("MBA")>>

\* "M.A., McGill University, 2001"
L_McGill ==
    <<W("M"), P("."), W("A"), P("."), P(","), SP, W("McGill"), SP,
      W("University"), P(","), SP, N(2001)>>

\* "Alumnus Award, 2001"
L_Award ==
    <<W("Alumnus"), SP, W("Award"), P(","), SP, N(2001)>>

Corpus ==
    { L_Blank,
      L_PhdChicago,
      L_Wharton,
      L_PhdFinance,
      L_AsstProf,
      L_BsMit,
      L_BaYale,
      L_BaYaleCaps,
      L_MbaHarvard,
      L_MsAi,
      L_AbBrown,
      L_Name,
      L_McGill,
      L_Award }

(***************************************************************************)
(* Numerals: decimal digits of a value, most significant first             *)
(***************************************************************************)
RECURSIVE Digits(_)
Digits(num) ==
    IF num < 10 THEN <<num>> ELSE Append(Digits(num \div 10), num % 10)

RECURSIVE Value(_)
Value(ds) ==
    IF ds = <<>> THEN 0 ELSE 10 * Value(Slice(ds, 1, Len(ds) - 1)) + ds[Len(ds)]

NumLen(num) == Len(Digits(num))

(***************************************************************************)
(* Lexicon: what str.lower(), len() and the character classes of the       *)
(* regular expressions give on the words of the texts considered.          *)
(***************************************************************************)
ToLower ==
    [ A |-> "a", AI |-> "ai", Alumnus |-> "alumnus",
      Assistant |-> "assistant", Award |-> "award", B |-> "b", BA |-> "ba",
      Brown |-> "brown", Chicago |-> "chicago", D |-> "d", Doe |-> "doe",
      Economics |-> "economics", Education |-> "education",
      Finance |-> "finance", Gill |-> "gill", HISTORY |-> "history",
      Harvard |-> "harvard", History |-> "history", Jane |-> "jane",
      June |-> "june", M |-> "m", MBA |-> "mba", MIT |-> "mit",
      Mc |-> "mc", McGill |-> "mcgill", Pennsylvania |-> "pennsylvania",
      Ph |-> "ph", Physics |-> "physics", Professor |-> "professor",
      Research |-> "research", S |-> "s", School |-> "school",
      The |-> "the", University |-> "university", Wharton |-> "wharton",
      Yale |-> "yale" ]

\* str.lower() of a word
Lower(str) == IF str \in DOMAIN ToLower THEN ToLower[str] ELSE str

\* words written with an upper-case initial followed by lower-case letters
\* only: the words that [A-Z][a-z]+ matches as a whole
CapitalizedWords ==
    { "Alumnus", "Assistant", "Award", "Brown", "Chicago", "Doe",
      "Economics", "Education", "Finance", "Gill", "Harvard", "History",
      "Jane", "June", "Mc", "Pennsylvania", "Ph", "Physics", "Professor",
      "Research", "School", "The", "University", "Wharton", "Yale" }

IsCapitalized(t) == IsW(t) /\ t.s \in CapitalizedWords

\* words with an inner lower-case/upper-case boundary, cut at it
CamelParts ==
    [ McGill |-> <<"Mc", "Gill">> ]

\* len() of a word
WordLen ==
    [ a |-> 1, ai |-> 2, alumnus |-> 7, and |-> 3, assistant |-> 9,
      award |-> 5, b |-> 1, ba |-> 2, brown |-> 5, chicago |-> 7, d |-> 1,
      doe |-> 3, economics |-> 9, education |-> 9, finance |-> 7,
      gill |-> 4, harvard |-> 7, history |-> 7, in |-> 2, jane |-> 4,
      june |-> 4, m |-> 1, mba |-> 3, mc |-> 2, mcgill |-> 6, mit |-> 3,
      of |-> 2, pennsylvania |-> 12, ph |-> 2, physics |-> 7,
      professor |-> 9, program |-> 7, research |-> 8, s |-> 1,
      school |-> 6, the |-> 3, university |-> 10, wharton |-> 7, yale |-> 4 ]

\* the tokens of the source's word lists that occur inside a (lower-cased)
\* word: 'token in text_lower'
Fragments ==
    [ assistant |-> {"assistant"}, education |-> {"education"},
      professor |-> {"professor"}, program |-> {"program"},
      research |-> {"research"}, school |-> {"school"},
      university |-> {"university"} ]

\* the KNOWN_INSTITUTIONS entries that occur inside a word: 'known in text'
KnownInside ==
    [ MIT |-> {"MIT"}, Wharton |-> {"Wharton"} ]

\* the letters of a short word, for the letter-by-letter degree pattern of
\* extract_field_strict
Spell ==
    [ a |-> <<"a">>, ai |-> <<"a", "i">>, and |-> <<"a", "n", "d">>,
      award |-> <<"a", "w", "a", "r", "d">>, b |-> <<"b">>,
      ba |-> <<"b", "a">>, brown |-> <<"b", "r", "o", "w", "n">>,
      d |-> <<"d">>, doe |-> <<"d", "o", "e">>,
      gill |-> <<"g", "i", "l", "l">>, in |-> <<"i", "n">>,
      jane |-> <<"j", "a", "n", "e">>, june |-> <<"j", "u", "n", "e">>,
      m |-> <<"m">>, mba |-> <<"m", "b", "a">>, mc |-> <<"m", "c">>,
      mit |-> <<"m", "i", "t">>, of |-> <<"o", "f">>, ph |-> <<"p", "h">>,
      s |-> <<"s">>, the |-> <<"t", "h", "e">>,
      yale |-> <<"y", "a", "l", "e">> ]

\* the words among University, College, Institute, School, from, at that a
\* (lower-cased) word begins with
OpensWith ==
    [ d |-> {"d"}, doe |-> {"d"}, school |-> {"school"},
      university |-> {"university"} ]

\* the proper endings of a (lower-cased) word that open the letters of some
\* degree display name: degree_flex has no \b in front and may start inside
\* a word
Endings ==
    [ alumnus |-> {<<"s">>}, and |-> {<<"d">>}, award |-> {<<"d">>},
      ba |-> {<<"a">>}, doe |-> {<<"e">>}, economics |-> {<<"s">>},
      finance |-> {<<"e">>}, gill |-> {<<"l">>, <<"l", "l">>},
      harvard |-> {<<"d">>}, jane |-> {<<"e">>}, june |-> {<<"e">>},
      mba |-> {<<"a">>, <<"b", "a">>}, mcgill |-> {<<"l">>, <<"l", "l">>},
      pennsylvania |-> {<<"a">>}, physics |-> {<<"s">>},
      program |-> {<<"m">>}, school |-> {<<"l">>}, the |-> {<<"e">>},
      yale |-> {<<"e">>} ]

\* the words that end with one of the fragments the name patterns look for
\* at the end of a word, with what stands before the fragment
HeadBefore ==
    [ June |-> [june |-> ""], M |-> [m |-> ""], Ph |-> [ph |-> ""],
      program |-> [m |-> "progra"] ]

\* the words in which (?:PhD|MBA|MD|JD|CPA|CFA|CFP) matches (any case),
\* with what stands before the leftmost match
CredentialHead ==
    [ MBA |-> "" ]

\* the letters of the words, as written
Letters ==
    [ A |-> <<"A">>, AI |-> <<"A", "I">>,
      Alumnus |-> <<"A", "l", "u", "m", "n", "u", "s">>,
      Assistant |-> <<"A", "s", "s", "i", "s", "t", "a", "n", "t">>,
      Award |-> <<"A", "w", "a", "r", "d">>, B |-> <<"B">>,
      BA |-> <<"B", "A">>, Brown |-> <<"B", "r", "o", "w", "n">>,
      Chicago |-> <<"C", "h", "i", "c", "a", "g", "o">>, D |-> <<"D">>,
      Doe |-> <<"D", "o", "e">>,
      Economics |-> <<"E", "c", "o", "n", "o", "m", "i", "c", "s">>,
      Education |-> <<"E", "d", "u", "c", "a", "t", "i", "o", "n">>,
      Finance |-> <<"F", "i", "n", "a", "n", "c", "e">>,
      Gill |-> <<"G", "i", "l", "l">>,
      HISTORY |-> <<"H", "I", "S", "T", "O", "R", "Y">>,
      Harvard |-> <<"H", "a", "r", "v", "a", "r", "d">>,
      History |-> <<"H", "i", "s", "t", "o", "r", "y">>,
      Jane |-> <<"J", "a", "n", "e">>, June |-> <<"J", "u", "n", "e">>,
      M |-> <<"M">>, MBA |-> <<"M", "B", "A">>, MIT |-> <<"M", "I", "T">>,
      Mc |-> <<"M", "c">>, McGill |-> <<"M", "c", "G", "i", "l", "l">>,
      Pennsylvania |-> <<"P", "e", "n", "n", "s", "y", "l", "v", "a", "n", "i", "a">>,
      Ph |-> <<"P", "h">>,
      Physics |-> <<"P", "h", "y", "s", "i", "c", "s">>,
      Professor |-> <<"P", "r", "o", "f", "e", "s", "s", "o", "r">>,
      Research |-> <<"R", "e", "s", "e", "a", "r", "c", "h">>,
      S |-> <<"S">>, School |-> <<"S", "c", "h", "o", "o", "l">>,
      The |-> <<"T", "h", "e">>,
      University |-> <<"U", "n", "i", "v", "e", "r", "s", "i", "t", "y">>,
      Wharton |-> <<"W", "h", "a", "r", "t", "o", "n">>,
      Yale |-> <<"Y", "a", "l", "e">>, and |-> <<"a", "n", "d">>,
      in |-> <<"i", "n">>, of |-> <<"o", "f">>,
      progra |-> <<"p", "r", "o", "g", "r", "a">>,
      program |-> <<"p", "r", "o", "g", "r", "a", "m">>,
      the |-> <<"t", "h", "e">> ]

(***************************************************************************)
(* parse_education: minimal preprocessing (three re.sub calls)             *)
(***************************************************************************)
\* re.sub(r'([a-z])([A-Z])', r'\1 \2'): a blank at every inner
\* lower/upper boundary of a word
CamelToken(t) ==
    IF IsW(t) /\ t.s \in DOMAIN CamelParts
    THEN JoinSpace([i \in 1..Len(CamelParts[t.s]) |-> <<W(CamelParts[t.s][i])>>])
    ELSE <<t>>

FixCamelCase(line) == Flatten([i \in 1..Len(line) |-> CamelToken(line[i])])

\* the digits at j..j+3 read 19dd or 20dd
YearLikeAt(ds, j) ==
    /\ j >= 1
    /\ j + 3 <= Len(ds)
    /\ \/ ds[j] = 1 /\ ds[j + 1] = 9
       \/ ds[j] = 2 /\ ds[j + 1] = 0

\* re.sub(r'(\w)(19\d{2}|20\d{2})', r'\1 \2') inside one run of digits:
\* the pieces the run is cut into.  atStart: a \w character precedes the
\* run, so the leftmost match may begin at its first digit (the first piece
\* is then empty).  Matches are leftmost and do not overlap.
RECURSIVE SplitDigits(_, _)
SplitDigits(ds, atStart) ==
    LET from == IF atStart THEN 1 ELSE 2
        cands == {j \in from..Len(ds) : YearLikeAt(ds, j)}
    IN  IF cands = {} THEN <<ds>>
        ELSE LET j == CHOOSE c \in cands : \A o \in cands : c <= o
                 rest == SplitDigits(Slice(ds, j + 4, Len(ds)), FALSE)
             IN  <<Slice(ds, 1, j - 1), Slice(ds, j, j + 3) \o rest[1]>>
                 \o Tail(rest)

YearToken(line, i) ==
    LET t == line[i]
        glued == i > 1 /\ IsWordChar(line[i - 1])
        pieces == SplitDigits(Digits(t.n), glued)
        toks == [p \in 1..Len(pieces) |->
                    IF pieces[p] = <<>> THEN <<>> ELSE <<N(Value(pieces[p]))>>]
    IN  IF ~IsN(t) THEN <<t>> ELSE JoinSpace(toks)

FixYearStuckToWord(line) ==
    Flatten([i \in 1..Len(line) |-> YearToken(line, i)])

\* re.sub(r' {2,}', ' ')
RECURSIVE FixMultipleSpaces(_)
FixMultipleSpaces(line) ==
    IF Len(line) < 2 THEN line
    ELSE IF IsSpace(line[1]) /\ IsSpace(line[2])
         THEN FixMultipleSpaces(Tail(line))
         ELSE <<line[1]>> \o FixMultipleSpaces(Tail(line))

PreprocessLine(line) ==
    FixMultipleSpaces(FixYearStuckToWord(FixCamelCase(line)))

(***************************************************************************)
(* Regular expressions over tokens.  A pattern is a sequence of elements;  *)
(* a position p says that the first p tokens are consumed.  Step gives the *)
(* positions an element can lead to, so Search decides re.search(...) as   *)
(* the existence of a match, whatever the order of backtracking.           *)
(***************************************************************************)
Dashes == {"-", "en-dash", "em-dash"}      \* [-–—]

Wd(ws) == [t |-> "W", ws |-> ws]          \* one of the words ws, any case
Pn(cs) == [t |-> "P", ws |-> cs]          \* one of the characters cs
OptPn(cs) == [t |-> "P?", ws |-> cs]      \* the same, optional
Sp0 == [t |-> "S*", ws |-> {}]            \* \s*
Sp1 == [t |-> "S+", ws |-> {}]            \* \s+
AnyText == [t |-> ".*", ws |-> {}]        \* .*
Bol == [t |-> "^", ws |-> {}]             \* ^
Eol == [t |-> "$", ws |-> {}]             \* $
Bnd == [t |-> "B", ws |-> {}]             \* \b
Num == [t |-> "D+", ws |-> {}]            \* \d+ reaching the end of a numeral
Num4 == [t |-> "D4", ws |-> {}]           \* \d{4} that is a whole numeral
Num4In == [t |-> "D4+", ws |-> {}]        \* \d{4} at one end of a numeral
Num1to4 == [t |-> "D1-4", ws |-> {}]      \* (?:1|2|3|4) that is a whole numeral
Letters1 == [t |-> "L1", ws |-> {}]       \* [A-Z]+ or [A-Z] opening a word
Letters2 == [t |-> "L2", ws |-> {}]       \* [A-Z][a-z]+ (any case), a whole word
WordChars == [t |-> "WC+", ws |-> {}]     \* \w+
DotBnd == [t |-> ".?B", ws |-> {}]        \* \.?\b
AheadSep == [t |-> "LASEP", ws |-> {}]    \* (?=[\s,\.\)]|$)
AheadBE == [t |-> "LABE", ws |-> {}]      \* (?=\s+in\s|\s*,|\s+[A-Z])
NotInstitute == [t |-> "NLAI", ws |-> {}] \* (?!\s+Institute)

WordCharAt(toks, i) == i >= 1 /\ i <= Len(toks) /\ IsWordChar(toks[i])
Boundary(toks, p) == WordCharAt(toks, p) # WordCharAt(toks, p + 1)

AllSpace(toks, a, b) == \A r \in a..b : IsSpace(toks[r])

\* the positions reached from p over one or more blanks
AfterSpaces(toks, p) ==
    {q \in (p + 1)..Len(toks) : AllSpace(toks, p + 1, q)}

IsWord(toks, i, ws) ==
    i >= 1 /\ i <= Len(toks) /\ IsW(toks[i]) /\ Lower(toks[i].s) \in ws

IsPunct(toks, i, cs) ==
    i >= 1 /\ i <= Len(toks) /\ toks[i].k = "p" /\ toks[i].s \in cs

LetterCount(t) ==
    IF Lower(t.s) \in DOMAIN WordLen THEN WordLen[Lower(t.s)] ELSE 2

Step(e, toks, S) ==
    LET n == Len(toks)
        tk(p) == toks[p + 1]
        more == {p \in S : p < n}
    IN  CASE e.t = "W" -> {p + 1 : p \in {q \in S : IsWord(toks, q + 1, e.ws)}}
          [] e.t = "P" -> {p + 1 : p \in {q \in S : IsPunct(toks, q + 1, e.ws)}}
          [] e.t = "P?" ->
                S \cup {p + 1 : p \in {q \in S : IsPunct(toks, q + 1, e.ws)}}
          [] e.t = "S*" -> S \cup UNION {AfterSpaces(toks, p) : p \in S}
          [] e.t = "S+" -> UNION {AfterSpaces(toks, p) : p \in S}
          [] e.t = ".*" -> {q \in 0..n : \E p \in S : p <= q}
          [] e.t = "^" -> S \cap {0}
          [] e.t = "$" -> S \cap {n}
          [] e.t = "B" -> {p \in S : Boundary(toks, p)}
          [] e.t = "D+" -> {p + 1 : p \in {q \in more : IsN(tk(q))}}
          [] e.t = "D4" ->
                {p + 1 : p \in {q \in more : IsN(tk(q)) /\ NumLen(tk(q).n) = 4}}
          [] e.t = "D4+" ->
                {p + 1 : p \in {q \in more : IsN(tk(q)) /\ NumLen(tk(q).n) >= 4}}
          [] e.t = "D1-4" ->
                {p + 1 : p \in {q \in more : IsN(tk(q)) /\ tk(q).n \in 1..4}}
          [] e.t = "L1" -> {p + 1 : p \in {q \in more : IsW(tk(q))}}
          [] e.t = "L2" ->
                {p + 1 : p \in {q \in more : IsW(tk(q)) /\ LetterCount(tk(q)) >= 2}}
          [] e.t = "WC+" ->
                {q \in 1..n : \E p \in S :
                    p < q /\ \A r \in (p + 1)..q : IsWordChar(toks[r])}
          [] e.t = ".?B" ->
                {p \in S : Boundary(toks, p)}
                \cup {p + 1 : p \in {q \in S : /\ IsPunct(toks, q + 1, {"."})
                                               /\ Boundary(toks, q + 1)}}
          [] e.t = "LASEP" ->
                {p \in S : \/ p = n
                           \/ IsSpace(tk(p))
                           \/ IsPunct(toks, p + 1, {",", ".", ")"})}
          [] e.t = "LABE" ->
                {p \in S :
                    \/ \E q \in AfterSpaces(toks, p) : q < n /\ IsW(tk(q))
                    \/ \E q \in {p} \cup AfterSpaces(toks, p) :
                           IsPunct(toks, q + 1, {","})}
          [] e.t = "NLAI" ->
                {p \in S : ~\E q \in AfterSpaces(toks, p) :
                               IsWord(toks, q + 1, {"institute"})}

RECURSIVE MatchFrom(_, _, _, _)
MatchFrom(pat, k, toks, S) ==
    IF k > Len(pat) \/ S = {} THEN S
    ELSE MatchFrom(pat, k + 1, toks, Step(pat[k], toks, S))

\* re.search(pattern, line) finds a match
Search(pat, toks) == MatchFrom(pat, 1, toks, 0..Len(toks)) # {}

\* r'\bw1\s+w2\s+...\b'
RECURSIVE PhraseBody(_)
PhraseBody(ws) ==
    IF Len(ws) = 1 THEN <<Wd({ws[1]})>>
    ELSE <<Wd({ws[1]}), Sp1>> \o PhraseBody(Tail(ws))

Phrase(ws) == <<Bnd>> \o PhraseBody(ws) \o <<Bnd>>

\* r'\bg1\.?\s*g2\.?\s*...gn\.?\b' with the letter groups written as the
\* words ws (two groups with nothing between them read as one word)
RECURSIVE AbbrevBody(_)
AbbrevBody(ws) ==
    IF Len(ws) = 1 THEN <<Wd({ws[1]})>>
    ELSE <<Wd({ws[1]}), OptPn({"."}), Sp0>> \o AbbrevBody(Tail(ws))

Abbrev(ws) == <<Bnd>> \o AbbrevBody(ws) \o <<DotBnd>>

\* r'\b(?:w|w'|...)\b'
AnyWord(ws) == <<Bnd, Wd(ws), Bnd>>

(***************************************************************************)
(* DEGREE_PATTERNS: (alternatives of the pattern, display, level), in the  *)
(* order of the source; all compiled with re.IGNORECASE                    *)
(***************************************************************************)
Deg(alts, display, level) ==
    [alts |-> alts, display |-> display, level |-> level]

\* the ways to write two or three letter groups as words
Two(a, b, ab) == {Abbrev(<<a, b>>), Abbrev(<<ab>>)}
Three(a, b, c, ab, bc, abc) ==
    {Abbrev(<<a, b, c>>), Abbrev(<<ab, c>>), Abbrev(<<a, bc>>), Abbrev(<<abc>>)}
\* the same followed by (?=[\s,\.\)]|$)
TwoSep(a, b, ab) == {pat \o <<AheadSep>> : pat \in Two(a, b, ab)}

DEGREE_PATTERNS ==
    << \* DOCTORAL
       Deg(Two("ph", "d", "phd"), "Ph.D.", "phd"),
       Deg({AnyWord({"phd"})}, "Ph.D.", "phd"),
       Deg(Two("d", "phil", "dphil"), "D.Phil", "phd"),
       Deg({Phrase(<<"doctor", "of", "philosophy">>)}, "Ph.D.", "phd"),
       Deg(Three("d", "b", "a", "db", "ba", "dba"), "D.B.A.", "phd"),
       Deg({Phrase(<<"doctor", "of", "business", "administration">>)},
           "D.B.A.", "phd"),
       Deg(Two("ed", "d", "edd"), "Ed.D.", "phd"),
       Deg({Phrase(<<"doctor", "of", "education">>)}, "Ed.D.", "phd"),
       \* MASTERS
       Deg(Three("m", "b", "a", "mb", "ba", "mba"), "MBA", "masters"),
       Deg({Phrase(<<"master", "of", "business", "administration">>)},
           "MBA", "masters"),
       Deg(TwoSep("m", "s", "ms"), "M.S.", "masters"),
       Deg(TwoSep("s", "m", "sm"), "S.M.", "masters"),
       Deg({Phrase(<<"master", "of", "science">>)}, "M.S.", "masters"),
       Deg(Two("m", "sc", "msc"), "M.Sc.", "masters"),
       Deg({<<Bnd, Wd({"m"}), Pn({"."}), Wd({"a"}), DotBnd, AheadSep>>},
           "M.A.", "masters"),
       Deg({<<Bnd, Wd({"ma"}), Bnd, Sp1, Wd({"in"}), Sp1>>}, "M.A.", "masters"),
       Deg({Phrase(<<"master", "of", "arts">>)}, "M.A.", "masters"),
       Deg(Two("m", "eng", "meng"), "M.Eng.", "masters"),
       Deg(Two("m", "phil", "mphil"), "M.Phil.", "masters"),
       Deg(Two("ll", "m", "llm"), "LL.M.", "masters"),
       Deg(Two("j", "d", "jd"), "J.D.", "masters"),
       Deg({Phrase(<<"juris", "doctor">>)}, "J.D.", "masters"),
       Deg({AnyWord({"mpa"})}, "MPA", "masters"),
       Deg(Three("m", "p", "a", "mp", "pa", "mpa"), "MPA", "masters"),
       Deg({AnyWord({"mpp"})}, "MPP", "masters"),
       Deg(Three("m", "p", "p", "mp", "pp", "mpp"), "MPP", "masters"),
       Deg({AnyWord({"mph"})}, "MPH", "masters"),
       Deg(Three("m", "p", "h", "mp", "ph", "mph"), "MPH", "masters"),
       Deg({AnyWord({"med"})}, "MEd", "masters"),
       Deg(Two("m", "ed", "med"), "MEd", "masters"),
       \* BACHELORS
       Deg(TwoSep("b", "s", "bs"), "B.S.", "undergrad"),
       Deg(TwoSep("s", "b", "sb"), "S.B.", "undergrad"),
       Deg({Phrase(<<"bachelor", "of", "science">>)}, "B.S.", "undergrad"),
       Deg(Two("b", "sc", "bsc"), "B.Sc.", "undergrad"),
       Deg({<<Bnd, Wd({"b"}), Pn({"."}), Wd({"a"}), DotBnd, AheadSep>>},
           "B.A.", "undergrad"),
       Deg({<<Bnd, Wd({"ba"}), Bnd, Sp1, Wd({"in"}), Sp1>>}, "B.A.", "undergrad"),
       Deg(TwoSep("a", "b", "ab"), "A.B.", "undergrad"),
       Deg({Phrase(<<"bachelor", "of", "arts">>)}, "B.A.", "undergrad"),
       Deg({pat \o <<AheadBE>> : pat \in Two("b", "e", "be")}, "B.E.", "undergrad"),
       Deg(Two("b", "eng", "beng"), "B.Eng.", "undergrad"),
       Deg({AnyWord({"bba"})}, "BBA", "undergrad"),
       Deg(Three("b", "b", "a", "bb", "ba", "bba"), "BBA", "undergrad"),
       Deg(Two("b", "com", "bcom"), "B.Com.", "undergrad") >>

(***************************************************************************)
(* EXCLUSION_PATTERNS, all compiled with re.IGNORECASE.  A line is vetoed  *)
(* when any of them is found, so they are kept as a set.                   *)
(***************************************************************************)
PhD_ == {<<Wd({"ph"}), OptPn({"."}), Sp0, Wd({"d"}), OptPn({"."})>>,
         <<Wd({"phd"}), OptPn({"."})>>}                  \* Ph\.?\s*D\.?
PhDTight == {<<Wd({"ph"}), OptPn({"."}), Wd({"d"}), OptPn({"."})>>,
             <<Wd({"phd"}), OptPn({"."})>>}              \* Ph\.?D\.?
RomanOrDigit == {<<Wd({"i", "ii", "iii", "iv"}), Bnd>>, <<Num1to4, Bnd>>}

EXCLUSION_PATTERNS ==
    { \* Employment titles
      AnyWord({"professor"}),
      Phrase(<<"assistant", "professor">>),
      Phrase(<<"associate", "professor">>),
      Phrase(<<"adjunct", "professor">>),
      AnyWord({"lecturer", "instructor"}),
      Phrase(<<"visiting", "professor">>),
      Phrase(<<"research", "professor">>),
      AnyWord({"director", "chair", "dean", "manager", "coordinator",
               "consultant"}),
      AnyWord({"president", "provost", "chancellor"}),
      Phrase(<<"vice", "president">>),
      <<Bnd, Wd({"present"}), Bnd, AnyText, Num4In>>,
      <<Num4In, Sp0, Pn(Dashes), Sp0, Wd({"present"}), Bnd>>,
      \* Employment context
      AnyWord({"taught", "teaching", "supervised", "advising", "mentoring"}),
      AnyWord({"employed", "appointed", "hired", "joined"}),
      \* Publications
      Phrase(<<"journal", "of">>),
      <<Bnd, Wd({"pp"}), Pn({"."}), Sp0, Num>>,
      <<Bnd, Wd({"vol"}), Pn({"."}), Sp0, Num>>,
      <<Bnd, Wd({"no"}), Pn({"."}), Sp0, Num>>,
      <<Pn({"("}), Num4, Pn({")"}), OptPn({",", "."}), Sp0, Eol>>,
      Phrase(<<"review", "of">>),
      AnyWord({"quarterly"}),
      AnyWord({"annual"}),
      AnyWord({"editor", "editors"}),
      AnyWord({"forthcoming"}),
      AnyWord({"published"}),
      Phrase(<<"working", "paper">>),
      AnyWord({"manuscript"}),
      <<Pn({"\""}), Letters1>>,
      <<Bnd, Wd({"and"}), Bnd, AnyText, Bnd, Wd({"and"}), Bnd, AnyText,
        Bnd, Wd({"and"}), Bnd>>,
      <<Pn({","}), Sp0, Num4, Pn({"."}), Sp0, Eol>>,
      <<Pn({"("}), Sp0, Wd({"with"}), Sp1>>,
      <<Num, Pn({"."}), Sp0, OptPn({"*"}), Letters2, Pn({","})>>,
      \* Course headers and descriptions
      <<Bnd, Wd({"courses"}), Sp0, Pn({":"}), Sp0, Eol>>,
      <<Bnd, Wd({"course", "courses"}), Bnd, AnyText, Pn({":"})>>,
      <<Bol, Sp0, WordChars, Sp1, Wd({"courses"}), Sp0, Eol>>,
      <<Bnd, Wd({"course"}), Sp1, Wd({"module", "modules"}), Bnd>>,
      Phrase(<<"executive", "mba">>),
      Phrase(<<"global", "mba">>),
      Phrase(<<"global", "executive", "mba">>),
      AnyWord({"gemba"}),
      \* Program mentions (not degrees)
      Phrase(<<"mba", "program">>),
      <<Bnd, Wd({"program"}), Sp0, Pn({"("}), Letters1, Sp1, Num>>,
      <<Bnd, Wd({"used"}), Sp1, Wd({"in"}), Bnd, AnyText, Bnd,
        Wd({"program", "programs"}), Bnd>>,
      \* Advising/teaching context
      AnyWord({"advisor"}),
      AnyWord({"advise", "advisee", "advised"}),
      AnyWord({"advisee", "adviser"}),
      AnyWord({"mentor"}),
      AnyWord({"supervis", "supervise", "supervised", "supervises",
               "supervising", "supervision", "supervisor", "supervisors"}),
      AnyWord({"student"}),
      Phrase(<<"year", "paper">>),
      Phrase(<<"dissertation", "committee">>),
      \* Workshops/training/certifications
      AnyWord({"workshop"}),
      AnyWord({"seminar"}),
      AnyWord({"training"}),
      AnyWord({"conference"}),
      AnyWord({"certificate", "certification"}),
      <<Bnd, Wd({"cfa"}), Bnd, NotInstitute>>,
      AnyWord({"cfp"}),
      AnyWord({"cpa"}),
      AnyWord({"cma"}),
      AnyWord({"frm"}),
      \* Committee/service
      AnyWord({"committee"}),
      AnyWord({"board"}),
      AnyWord({"senate"}),
      \* Dissertation/thesis references
      <<Bnd, Wd({"dissertation"}), Sp0, Pn({":"})>>,
      <<Bnd, Wd({"thesis"}), Sp0, Pn({":"})>>,
      \* Awards
      AnyWord({"award"}),
      AnyWord({"prize"}),
      Phrase(<<"fellow", "of">>),
      AnyWord({"recipient"}),
      AnyWord({"scholarship"}) }
    \* "MBA-II"
    \cup {<<Bnd, Wd({"mba", "mpa", "mpp"}), Sp0, OptPn(Dashes), Sp0>> \o tl :
            tl \in RomanOrDigit}
    \cup {<<Bnd>> \o hd \o <<Sp0, OptPn(Dashes), Sp0>> \o tl :
            hd \in PhDTight, tl \in RomanOrDigit}
    \* "Ph.D. program", "Ph.D. Student"
    \cup {<<Bnd>> \o hd \o <<Sp1, Wd({"program"}), Bnd>> : hd \in PhD_}
    \cup {<<Bnd>> \o hd \o <<Sp1, Wd({"student", "fellow", "candidate"}), Bnd>> :
            hd \in PhD_}

\* any(p.search(line) for p in COMPILED_EXCLUSION_PATTERNS)
IsExcluded(line) == \E pat \in EXCLUSION_PATTERNS : Search(pat, line)

(***************************************************************************)
(* find_degrees_strict                                                     *)
(***************************************************************************)
\* line.strip()
RECURSIVE StripLeft(_)
StripLeft(line) ==
    IF line # <<>> /\ IsSpace(line[1]) THEN StripLeft(Tail(line)) ELSE line

RECURSIVE StripRight(_)
StripRight(line) ==
    IF line # <<>> /\ IsSpace(line[Len(line)])
    THEN StripRight(Slice(line, 1, Len(line) - 1))
    ELSE line

Strip(line) == StripRight(StripLeft(line))

DegreeMatches(line, idx) ==
    \E pat \in DEGREE_PATTERNS[idx].alts : Search(pat, line)

\* the least of a set of indices, 0 when there is none
FirstOf(hits) ==
    IF hits = {} THEN 0 ELSE CHOOSE idx \in hits : \A o \in hits : idx <= o

\* the greatest of a set of indices, 0 when there is none
LastOf(hits) ==
    IF hits = {} THEN 0 ELSE CHOOSE idx \in hits : \A o \in hits : idx >= o

\* a variant of the search through DEGREE_PATTERNS that does not stop at the
\* first entry found: the last entry found in the line, 0 when there is none
LastDegree(line) ==
    LastOf({idx \in 1..Len(DEGREE_PATTERNS) : DegreeMatches(line, idx)})

\* the first entry of DEGREE_PATTERNS found in the line, 0 when there is none
FirstDegree(line) ==
    FirstOf({idx \in 1..Len(DEGREE_PATTERNS) : DegreeMatches(line, idx)})

\* a variant of the loop body that matches degrees without the hard filter
ScanLineUnfiltered(line) ==
    IF Strip(line) = <<>> THEN 0 ELSE FirstDegree(Strip(line))

\* the loop body for a stripped line
ScanStripped(stripped) ==
    IF stripped = <<>> THEN 0
    ELSE IF IsExcluded(stripped) THEN 0
    ELSE FirstDegree(stripped)

\* the loop body for one line: the index in DEGREE_PATTERNS of the first
\* pattern found on it, 0 when the line is blank, excluded or has none
ScanLine(line) == ScanStripped(Strip(line))

(***************************************************************************)
(* School validation                                                       *)
(***************************************************************************)
INSTITUTION_KEYWORDS == {"university", "college", "institute", "school"}

KNOWN_INSTITUTIONS ==
    { "MIT", "Caltech", "INSEAD", "Wharton", "Kellogg", "Booth", "HEC", "LSE",
      "UCLA", "NYU", "USC", "CUNY", "SUNY" }

EMPLOYMENT_TOKENS ==
    { "professor", "assistant", "associate", "adjunct", "visiting",
      "lecturer", "instructor", "director", "chair", "dean",
      "president", "provost", "chancellor", "coordinator",
      "employed", "appointed", "joined", "present" }

SECTION_HEADERS ==
    { "education", "experience", "employment", "publications", "research",
      "teaching", "awards", "honors", "service", "references", "grants",
      "activities", "affiliations", "memberships", "certifications" }

COURSE_TOKENS ==
    { "workshop", "seminar", "training", "conference", "course", "module",
      "certificate", "certification", "program", "class" }

\* len(text)
RECURSIVE CharLen(_)
CharLen(toks) ==
    IF toks = <<>> THEN 0
    ELSE LET t == Head(toks)
         IN  (CASE IsW(t) -> LetterCount(t)
                [] IsN(t) -> NumLen(t.n)
                [] OTHER -> 1) + CharLen(Tail(toks))

FragmentsOf(toks) ==
    UNION { IF Lower(toks[i].s) \in DOMAIN Fragments
            THEN Fragments[Lower(toks[i].s)] ELSE {} :
            i \in {j \in 1..Len(toks) : IsW(toks[j])} }

\* any(token in text.lower() for token in terms), terms being single words
ContainsAny(toks, terms) == FragmentsOf(toks) \cap terms # {}

\* any(known in text for known in KNOWN_INSTITUTIONS)
ContainsKnown(toks) ==
    \E i \in 1..Len(toks) :
        IsW(toks[i]) /\ toks[i].s \in DOMAIN KnownInside
                     /\ KnownInside[toks[i].s] # {}

is_valid_institution(text) ==
    /\ text # <<>>
    /\ CharLen(text) >= 2
    /\ ~ContainsAny(text, EMPLOYMENT_TOKENS)
    /\ ~ContainsAny(text, SECTION_HEADERS)
    /\ ~ContainsAny(text, COURSE_TOKENS)
    /\ \/ ContainsAny(text, INSTITUTION_KEYWORDS)
       \/ ContainsKnown(text)

(***************************************************************************)
(* clean_institution                                                       *)
(***************************************************************************)
StripChars == {".", ",", ";", ":", "(", ")", "[", "]", "{", "}", "\"", "'", "-"}

IsStripped(t) == IsSpace(t) \/ (t.k = "p" /\ t.s \in StripChars)

\* inst.strip(' \t\n\r.,;:()[]{}"\'-')
RECURSIVE StripPunct(_)
StripPunct(toks) ==
    IF toks = <<>> THEN toks
    ELSE IF IsStripped(toks[1]) THEN StripPunct(Tail(toks))
    ELSE IF IsStripped(toks[Len(toks)])
         THEN StripPunct(Slice(toks, 1, Len(toks) - 1))
    ELSE toks

IsSpaceOrComma(t) == IsSpace(t) \/ (t.k = "p" /\ t.s = ",")

\* toks without its last cnt tokens and without the [\s,]+ before them;
\* toks itself when no blank or comma stands there
RECURSIVE DropSeparators(_)
DropSeparators(toks) ==
    IF toks # <<>> /\ IsSpaceOrComma(toks[Len(toks)])
    THEN DropSeparators(Slice(toks, 1, Len(toks) - 1))
    ELSE toks

CutTail(toks, cnt) ==
    LET keep == Len(toks) - cnt
    IN  IF keep >= 1 /\ IsSpaceOrComma(toks[keep])
        THEN DropSeparators(Slice(toks, 1, keep))
        ELSE toks

MonthNames ==
    { "january", "february", "march", "april", "may", "june", "july",
      "august", "september", "october", "november", "december", "jan", "feb",
      "mar", "apr", "jun", "jul", "aug", "sep", "sept", "oct", "nov", "dec" }

LastIsWord(toks, back, ws) ==
    Len(toks) > back /\ IsWord(toks, Len(toks) - back, ws)

\* re.sub(r'[\s,]+\d{4}\s*$', '', inst)
DropYear(toks) ==
    LET m == Len(toks)
    IN  IF m >= 1 /\ IsN(toks[m]) /\ NumLen(toks[m].n) = 4
        THEN CutTail(toks, 1) ELSE toks

\* re.sub(r'[\s,]+\d{4}\s*[-–—]\s*\d{2,4}\s*$', '', inst)
DropYearRange(toks) ==
    LET m == Len(toks)
    IN  IF /\ m >= 3
           /\ IsN(toks[m]) /\ NumLen(toks[m].n) \in 2..4
           /\ IsPunct(toks, m - 1, Dashes)
           /\ IsN(toks[m - 2]) /\ NumLen(toks[m - 2].n) = 4
        THEN CutTail(toks, 3) ELSE toks

\* re.sub(r'[\s,]+(?:January|...|Dec)[\s,]*\d*\s*$', '', inst)
DropMonth(toks) ==
    IF LastIsWord(toks, 0, MonthNames) THEN CutTail(toks, 1) ELSE toks

\* re.sub(r'[\s,]+(?:Ph\.?D\.?|MBA|M\.?S\.?|M\.?A\.?|B\.?S\.?|B\.?A\.?|J\.?D\.?)\s*$')
\* on words without inner dots
DropDegree(toks) ==
    IF LastIsWord(toks, 0, {"phd", "mba", "ms", "ma", "bs", "ba", "jd"})
    THEN CutTail(toks, 1) ELSE toks

\* re.sub(r'[\s,]+(?:summa|magna|cum\s+laude|with\s+honors?|with\s+distinction)\s*$')
DropHonors(toks) ==
    IF LastIsWord(toks, 0, {"summa", "magna"}) THEN CutTail(toks, 1)
    ELSE IF \/ LastIsWord(toks, 0, {"laude"}) /\ LastIsWord(toks, 2, {"cum"})
            \/ /\ LastIsWord(toks, 0, {"honor", "honors", "distinction"})
               /\ LastIsWord(toks, 2, {"with"})
         THEN IF Len(toks) >= 3 /\ IsSpace(toks[Len(toks) - 1])
              THEN CutTail(toks, 3) ELSE toks
    ELSE toks

\* re.sub(r'\s*\([^)]*\)\s*$', '', inst)
DropParenthetical(toks) ==
    LET m == Len(toks)
        opens == {i \in 1..(m - 1) :
                     /\ IsPunct(toks, i, {"("})
                     /\ \A j \in (i + 1)..(m - 1) : ~IsPunct(toks, j, {")"})}
    IN  IF m >= 2 /\ IsPunct(toks, m, {")"}) /\ opens # {}
        THEN StripRight(Slice(toks, 1,
                 (CHOOSE i \in opens : \A o \in opens : i <= o) - 1))
        ELSE toks

clean_institution(inst) ==
    IF inst = <<>> THEN <<>>
    ELSE StripPunct(FixMultipleSpaces(
             DropHonors(DropParenthetical(DropDegree(DropMonth(
                 DropYearRange(DropYear(StripPunct(inst)))))))))

(***************************************************************************)
(* extract_institution_strict: structural patterns (case-sensitive)        *)
(***************************************************************************)
IsExact(toks, i, str) == i >= 1 /\ i <= Len(toks) /\ IsW(toks[i]) /\ toks[i].s = str

\* the position of the token that follows the blanks after position i,
\* 0 when no blank follows i or the line ends
AfterBlanks(toks, i) ==
    LET ends == {q \in AfterSpaces(toks, i) : q < Len(toks) /\ ~IsSpace(toks[q + 1])}
    IN  IF ends = {} THEN 0 ELSE (CHOOSE q \in ends : TRUE) + 1

\* a letter at the start of token i
WordAt(toks, i) == i >= 1 /\ i <= Len(toks) /\ IsW(toks[i])

\* [A-Z][a-z]+ at token i
CapAt(toks, i) == i >= 1 /\ i <= Len(toks) /\ IsCapitalized(toks[i])

\* \s+[A-Z][a-z]+ after token i: the position of that word, else 0
NextCap(toks, i) ==
    LET j == AfterBlanks(toks, i)
    IN  IF j # 0 /\ CapAt(toks, j) THEN j ELSE 0

\* \s+w1\s+w2... after token i: the position of the last word, else 0
RECURSIVE TailEnd(_, _, _)
TailEnd(toks, i, ws) ==
    IF ws = <<>> THEN i
    ELSE LET j == AfterBlanks(toks, i)
         IN  IF j # 0 /\ IsExact(toks, j, ws[1])
             THEN TailEnd(toks, j, Tail(ws)) ELSE 0

\* the first of two results that is not 0
FirstNonZero(a, b) == IF a # 0 THEN a ELSE b

\* [A-Z][a-z]+(?:\s+[A-Z][a-z]+){0,more}\s+w1\s+w2... begun at token i with
\* the repetition greedy: the position of the last word, else 0
RECURSIVE CapRunEnd(_, _, _, _)
CapRunEnd(toks, i, more, ws) ==
    FirstNonZero(IF more > 0 /\ NextCap(toks, i) # 0
                 THEN CapRunEnd(toks, NextCap(toks, i), more - 1, ws)
                 ELSE 0,
                 TailEnd(toks, i, ws))

Least(S) == CHOOSE x \in S : \A y \in S : x <= y
Greatest(S) == CHOOSE x \in S : \A y \in S : x >= y

\* the leftmost of the places where a match starts, with its end
LeftmostCapRun(toks, more, ws, starts) ==
    IF starts = {} THEN <<>>
    ELSE <<Least(starts), CapRunEnd(toks, Least(starts), more, ws)>>

\* re.search of such a pattern: the leftmost match as <<first, last>>,
\* <<>> when there is none
SearchCapRun(toks, more, ws) ==
    LeftmostCapRun(toks, more, ws,
        {i \in 1..Len(toks) : CapAt(toks, i) /\ CapRunEnd(toks, i, more, ws) # 0})

\* Pattern 1: University\s+of\s+[A-Z][a-z]+(?:[-\s]+[A-Z][a-z]+)?(?:,\s*[A-Z][a-z]+)?
\* University\s+of\s+[A-Z][a-z]+ begun at token i: the position of the
\* capitalised word, else 0
UniversityOfBase(toks, i) ==
    IF IsExact(toks, i, "University") /\ TailEnd(toks, i, <<"of">>) # 0
    THEN NextCap(toks, TailEnd(toks, i, <<"of">>))
    ELSE 0

\* [-\s]+ after token base, taken greedily: the position of its last token
\* (base when there is none)
HyphenRun(toks, base) ==
    Greatest({base} \cup {q \in (base + 1)..Len(toks) :
                            \A r \in (base + 1)..q :
                                IsSpace(toks[r]) \/ IsPunct(toks, r, {"-"})})

\* (?:[-\s]+[A-Z][a-z]+)? after token base: the last token matched
SecondWord(toks, base, run) ==
    IF run > base /\ CapAt(toks, run + 1) THEN run + 1 ELSE base

\* \s*[A-Z][a-z]+ after the comma at token c: the position of the word, else 0
CapAfterComma(toks, c, spaced) ==
    IF CapAt(toks, c + 1) THEN c + 1
    ELSE IF spaced # 0 /\ CapAt(toks, spaced) THEN spaced
    ELSE 0

\* (?:,\s*[A-Z][a-z]+)? after token second: the last token matched
CommaWord(toks, second) ==
    IF IsPunct(toks, second + 1, {","})
       /\ CapAfterComma(toks, second + 1, AfterBlanks(toks, second + 1)) # 0
    THEN CapAfterComma(toks, second + 1, AfterBlanks(toks, second + 1))
    ELSE second

UniversityOfFrom(toks, base) ==
    IF base = 0 THEN 0
    ELSE CommaWord(toks, SecondWord(toks, base, HyphenRun(toks, base)))

UniversityOfEnd(toks, i) == UniversityOfFrom(toks, UniversityOfBase(toks, i))

\* the leftmost of the places where a match starts, with its end
LeftmostUniversityOf(toks, starts) ==
    IF starts = {} THEN <<>>
    ELSE <<Least(starts), UniversityOfEnd(toks, Least(starts))>>

SearchUniversityOf(toks) ==
    LeftmostUniversityOf(toks,
        {i \in 1..Len(toks) : UniversityOfEnd(toks, i) # 0})

\* Pattern 6: ...\s+School(?:\s+of\s+[A-Z][a-z]+)?
\* (?:\s+of\s+[A-Z][a-z]+)? after the match m of ...\s+School
WithOfWord(toks, m, c) ==
    IF c # 0 /\ NextCap(toks, c) # 0 THEN <<m[1], NextCap(toks, c)>> ELSE m

SchoolOf(toks, m) ==
    IF m = <<>> THEN m ELSE WithOfWord(toks, m, TailEnd(toks, m[2], <<"of">>))

SearchSchool(toks) == SchoolOf(toks, SearchCapRun(toks, 1, <<"School">>))

\* the matches of Patterns 1..6 in the order tried
InstitutionMatches(toks) ==
    << SearchUniversityOf(toks),
       SearchCapRun(toks, 3, <<"University">>),
       SearchCapRun(toks, 0, <<"State", "University">>),
       SearchCapRun(toks, 1, <<"Institute", "of", "Technology">>),
       SearchCapRun(toks, 2, <<"College">>),
       SearchSchool(toks) >>

\* inst = clean_institution(match.group(1).strip()) where the pattern matched
Candidate(toks, m) ==
    IF m = <<>> THEN <<>> ELSE clean_institution(Strip(Slice(toks, m[1], m[2])))

\* re.search(rf'\b{known}\b', text)
KnownFound(toks, known) ==
    \E i \in 1..Len(toks) :
        IsExact(toks, i, known) /\ Boundary(toks, i - 1) /\ Boundary(toks, i)

\* if inst and is_valid_institution(inst): return inst
ValidOrNone(inst) == IF is_valid_institution(inst) THEN inst ELSE <<>>

\* the first of two results that is not empty
Either(a, b) == IF a # <<>> THEN a ELSE b

\* a variant of FirstValid in which the first pattern that matches decides:
\* its candidate if valid, nothing otherwise
RECURSIVE FirstMatch(_, _)
FirstMatch(text, ms) ==
    IF ms = <<>> THEN <<>>
    ELSE IF Head(ms) # <<>> THEN ValidOrNone(Candidate(text, Head(ms)))
    ELSE FirstMatch(text, Tail(ms))

\* the patterns tried in turn: the first candidate that is valid
RECURSIVE FirstValid(_, _)
FirstValid(text, ms) ==
    IF ms = <<>> THEN <<>>
    ELSE Either(ValidOrNone(Candidate(text, Head(ms))),
                FirstValid(text, Tail(ms)))

\* for known in KNOWN_INSTITUTIONS, in the order the set is visited in
RECURSIVE FirstKnown(_, _)
FirstKnown(text, order) ==
    IF order = <<>> THEN <<>>
    ELSE IF KnownFound(text, Head(order)) THEN <<W(Head(order))>>
    ELSE FirstKnown(text, Tail(order))

\* a variant of extract_institution_strict without the loop over
\* KNOWN_INSTITUTIONS
extract_institution_by_pattern(text, order) ==
    IF text = <<>> THEN <<>>
    ELSE FirstValid(text, InstitutionMatches(text))

\* order: the order in which 'for known in KNOWN_INSTITUTIONS' visits the set
extract_institution_strict(text, order) ==
    IF text = <<>> THEN <<>>
    ELSE Either(FirstKnown(text, order),
                FirstValid(text, InstitutionMatches(text)))

(***************************************************************************)
(* extract_year_strict.  A year is a number; NoYear stands for "".         *)
(***************************************************************************)
NoYear == 0

\* (19[5-9]\d|20[0-3]\d) read as a number
YearPattern(y) == (y >= 1950 /\ y <= 1999) \/ (y >= 2000 /\ y <= 2039)

\* the first and the last four digits of a run of digits
First4(num) == Value(Slice(Digits(num), 1, 4))
Last4(num) == num % 10000

\* the year pattern on the last four digits of the run at i
YearEnds(toks, i) ==
    /\ i >= 1 /\ i <= Len(toks) /\ IsN(toks[i])
    /\ NumLen(toks[i].n) >= 4
    /\ YearPattern(Last4(toks[i].n))

\* the year pattern on the first four digits of the run at i
YearBegins(toks, i) ==
    /\ i >= 1 /\ i <= Len(toks) /\ IsN(toks[i])
    /\ NumLen(toks[i].n) >= 4
    /\ YearPattern(First4(toks[i].n))

\* \s* from token i on: the position of the first token at or after i that
\* is not a blank (one past the end when there is none)
SkipBlanks(toks, i) ==
    Least({q \in i..(Len(toks) + 1) : q > Len(toks) \/ ~IsSpace(toks[q])})

\* (year)\s*[-–—]\s*(year) with the left year ending at token i: the
\* position of the run of digits the right year opens, 0 when none
RangeRight(toks, i) ==
    LET d == SkipBlanks(toks, i + 1)
        r == SkipBlanks(toks, d + 1)
    IN  IF YearEnds(toks, i) /\ IsPunct(toks, d, Dashes) /\ YearBegins(toks, r)
        THEN r ELSE 0

\* re.findall(r'\b(year)\b'): the positions of the free-standing years
StandaloneYears(toks) ==
    {i \in 1..Len(toks) :
        /\ IsN(toks[i]) /\ NumLen(toks[i].n) = 4 /\ YearPattern(toks[i].n)
        /\ ~WordCharAt(toks, i - 1) /\ ~WordCharAt(toks, i + 1)}

\* the offsets at which the digits of y occur inside a run of digits
OffsetsIn(y, num) ==
    {o \in 0..(NumLen(num) - 4) : Slice(Digits(num), o + 1, o + 4) = Digits(y)}

\* text.find(year) lands on a place with a digit before or after it
FirstFindTouchesDigit(toks, y) ==
    LET runs == {i \in 1..Len(toks) : IsN(toks[i]) /\ OffsetsIn(y, toks[i].n) # {}}
        num == toks[Least(runs)].n
        o == Least(OffsetsIn(y, num))
    IN  o > 0 \/ o + 4 < NumLen(num)

\* words that mark an award, an honor or an alumnus
YEAR_MARKERS ==
    {"award", "awards", "honor", "honors", "honour", "honours", "alumnus",
     "alumna", "alumni"}

HasMarker(toks) ==
    \E i \in 1..Len(toks) : IsW(toks[i]) /\ Lower(toks[i].s) \in YEAR_MARKERS

\* a variant of extract_year_strict that returns the first of the
\* free-standing years when the text holds a marker
extract_year_first_if_marked(text) ==
    LET ranges == {i \in 1..Len(text) : RangeRight(text, i) # 0}
        valid_years == {i \in StandaloneYears(text) :
                            ~FirstFindTouchesDigit(text, text[i].n)}
    IN  IF text = <<>> THEN NoYear
        ELSE IF ranges # {}
             THEN First4(text[RangeRight(text, Least(ranges))].n)
        ELSE IF valid_years # {}
             THEN (IF HasMarker(text) THEN text[Least(valid_years)].n
                   ELSE text[Greatest(valid_years)].n)
        ELSE NoYear

\* a variant of extract_year_strict that takes the larger year of a range
extract_year_larger(text) ==
    LET ranges == {i \in 1..Len(text) : RangeRight(text, i) # 0}
        left == Last4(text[Least(ranges)].n)
        right == First4(text[RangeRight(text, Least(ranges))].n)
        valid_years == {i \in StandaloneYears(text) :
                            ~FirstFindTouchesDigit(text, text[i].n)}
    IN  IF text = <<>> THEN NoYear
        ELSE IF ranges # {} THEN (IF left > right THEN left ELSE right)
        ELSE IF valid_years # {} THEN text[Greatest(valid_years)].n
        ELSE NoYear

extract_year_strict(text) ==
    LET ranges == {i \in 1..Len(text) : RangeRight(text, i) # 0}
        valid_years == {i \in StandaloneYears(text) :
                            ~FirstFindTouchesDigit(text, text[i].n)}
    IN  IF text = <<>> THEN NoYear
        ELSE IF ranges # {}
             THEN First4(text[RangeRight(text, Least(ranges))].n)
        ELSE IF valid_years # {} THEN text[Greatest(valid_years)].n
        ELSE NoYear

(***************************************************************************)
(* extract_field_strict                                                    *)
(***************************************************************************)
\* the letters of a display name, which degree_flex asks for one by one,
\* each followed by \.?\s* (any case)
DegreeLetters(display) ==
    CASE display = "Ph.D." -> <<"p", "h", "d">>
      [] display = "D.Phil" -> <<"d", "p", "h", "i", "l">>
      [] display = "D.B.A." -> <<"d", "b", "a">>
      [] display = "Ed.D." -> <<"e", "d", "d">>
      [] display = "MBA" -> <<"m", "b", "a">>
      [] display = "M.S." -> <<"m", "s">>
      [] display = "S.M." -> <<"s", "m">>
      [] display = "M.Sc." -> <<"m", "s", "c">>
      [] display = "M.A." -> <<"m", "a">>
      [] display = "M.Eng." -> <<"m", "e", "n", "g">>
      [] display = "M.Phil." -> <<"m", "p", "h", "i", "l">>
      [] display = "LL.M." -> <<"l", "l", "m">>
      [] display = "J.D." -> <<"j", "d">>
      [] display = "MPA" -> <<"m", "p", "a">>
      [] display = "MPP" -> <<"m", "p", "p">>
      [] display = "MPH" -> <<"m", "p", "h">>
      [] display = "MEd" -> <<"m", "e", "d">>
      [] display = "B.S." -> <<"b", "s">>
      [] display = "S.B." -> <<"s", "b">>
      [] display = "B.Sc." -> <<"b", "s", "c">>
      [] display = "B.A." -> <<"b", "a">>
      [] display = "A.B." -> <<"a", "b">>
      [] display = "B.E." -> <<"b", "e">>
      [] display = "B.Eng." -> <<"b", "e", "n", "g">>
      [] display = "BBA" -> <<"b", "b", "a">>
      [] display = "B.Com." -> <<"b", "c", "o", "m">>

\* what the word at token i can give to degree_flex when the match starts
\* in it: all its letters, or an ending of it
Openings(toks, i) ==
    LET lc == Lower(toks[i].s)
    IN  IF i < 1 \/ i > Len(toks) \/ ~IsW(toks[i]) THEN {}
        ELSE (IF lc \in DOMAIN Spell THEN {Spell[lc]} ELSE {})
             \cup (IF lc \in DOMAIN Endings THEN Endings[lc] ELSE {})

\* degree_flex with the word at token i supplying the letters sp: the
\* position of the word that supplies the last letter, 0 when the letters
\* are not found there.  Between two letters lie \.?\s*.
RECURSIVE FlexFrom(_, _, _, _)
FlexFrom(toks, i, sp, letters) ==
    LET n == Len(sp)
        dot == IF IsPunct(toks, i + 1, {"."}) THEN i + 1 ELSE i
        j == SkipBlanks(toks, dot + 1)
    IN  IF n > Len(letters) \/ SubSeq(letters, 1, n) # sp THEN 0
        ELSE IF n = Len(letters) THEN i
        ELSE IF j > Len(toks) \/ ~IsW(toks[j]) THEN 0
        ELSE IF Lower(toks[j].s) \notin DOMAIN Spell THEN 0
        ELSE FlexFrom(toks, j, Spell[Lower(toks[j].s)],
                      SubSeq(letters, n + 1, Len(letters)))

\* the final \.? of degree_flex after its last letter at token e
WithDot(toks, e) ==
    IF e = 0 THEN 0
    ELSE IF IsPunct(toks, e + 1, {"."}) THEN e + 1 ELSE e

\* the last token degree_flex takes (the final \.? included), 0 when it
\* does not match
FlexLast(toks, i, sp, letters) == WithDot(toks, FlexFrom(toks, i, sp, letters))

\* [A-Za-z\s&/\-]
IsFieldChar(t) == IsW(t) \/ IsSpace(t) \/ (t.k = "p" /\ t.s \in {"&", "/", "-"})

\* \s+ followed by a word that begins with one of ws (any case)
BlanksThenOpening(toks, q, ws) ==
    LET r == AfterBlanks(toks, q)
    IN  /\ r # 0 /\ IsW(toks[r])
        /\ Lower(toks[r].s) \in DOMAIN OpensWith
        /\ OpensWith[Lower(toks[r].s)] \cap ws # {}

\* \s+\d{4}
BlanksThenDigits(toks, q) ==
    LET r == AfterBlanks(toks, q)
    IN  r # 0 /\ IsN(toks[r]) /\ NumLen(toks[r].n) >= 4

\* \s*$
BlanksToEnd(toks, q) == AllSpace(toks, q + 1, Len(toks))

\* (?:,|;|\s+\d{4}|\s+(?:University|College|Institute|School|from|at)|\s*$)
StopsInField(toks, q) ==
    \/ IsPunct(toks, q + 1, {",", ";"})
    \/ BlanksThenDigits(toks, q)
    \/ BlanksThenOpening(toks, q, INSTITUTION_KEYWORDS \cup {"from", "at"})
    \/ BlanksToEnd(toks, q)

\* (?:,|\s+\d{4}|\s+(?:University|College|Institute|School)|\s*$)
StopsCommaField(toks, q) ==
    \/ IsPunct(toks, q + 1, {","})
    \/ BlanksThenDigits(toks, q)
    \/ BlanksThenOpening(toks, q, INSTITUTION_KEYWORDS)
    \/ BlanksToEnd(toks, q)

\* \s*,\s*[A-Z] (any case)
StopsBeforeComma(toks, q) ==
    LET c == SkipBlanks(toks, q + 1)
    IN  IsPunct(toks, c, {","}) /\ WordAt(toks, SkipBlanks(toks, c + 1))

\* the token the field group starts at, for each of the four patterns, the
\* degree ending at token e; 0 when the text between does not match
\* \s+(?:in|of)\s+
StartInField(toks, e) ==
    LET w == AfterBlanks(toks, e)
    IN  IF w # 0 /\ IsWord(toks, w, {"in", "of"}) THEN AfterBlanks(toks, w) ELSE 0

\* \s*,\s*Concentration\s+in\s+
StartConcentration(toks, e) ==
    LET c == SkipBlanks(toks, e + 1)
        w == SkipBlanks(toks, c + 1)
        v == AfterBlanks(toks, w)
    IN  IF /\ IsPunct(toks, c, {","}) /\ IsWord(toks, w, {"concentration"})
           /\ v # 0 /\ IsWord(toks, v, {"in"})
        THEN AfterBlanks(toks, v) ELSE 0

\* \s+
StartBlank(toks, e) == AfterBlanks(toks, e)

\* \s*,\s*
StartComma(toks, e) ==
    LET c == SkipBlanks(toks, e + 1)
    IN  IF IsPunct(toks, c, {","}) THEN SkipBlanks(toks, c + 1) ELSE 0

\* the four patterns of extract_field_strict, by number: what lies between
\* the degree and the field group, and what ends the field group
FieldStart(toks, p, e) ==
    CASE p = 1 -> StartInField(toks, e)
      [] p = 2 -> StartConcentration(toks, e)
      [] p = 3 -> StartBlank(toks, e)
      [] p = 4 -> StartComma(toks, e)

FieldStops(toks, p, q) ==
    CASE p = 1 -> StopsInField(toks, q)
      [] p = 2 -> StopsCommaField(toks, q)
      [] p = 3 -> StopsBeforeComma(toks, q)
      [] p = 4 -> StopsCommaField(toks, q)

LeastOrZero(S) == IF S = {} THEN 0 ELSE Least(S)

\* ([A-Za-z][A-Za-z\s&/\-]+?) from token s on, followed by what ends it in
\* pattern p: the last token of the group, 0 when there is no match.  The
\* group is lazy, so it stops at the first place where the rest of the
\* pattern matches.
FieldEnd(toks, s, p) ==
    IF s < 1 \/ s > Len(toks) \/ ~IsW(toks[s]) THEN 0
    ELSE LeastOrZero({q \in s..Len(toks) :
                         /\ \A r \in s..q : IsFieldChar(toks[r])
                         /\ CharLen(Slice(toks, s, q)) >= 2
                         /\ FieldStops(toks, p, q)})

\* the field group as <<first, last>>, <<>> when pattern p does not match
SpanTo(s, e) == IF e = 0 THEN <<>> ELSE <<s, e>>

SpanFrom(toks, p, s) ==
    IF s = 0 THEN <<>> ELSE SpanTo(s, FieldEnd(toks, s, p))

SpanAfter(toks, p, last) ==
    IF last = 0 THEN <<>> ELSE SpanFrom(toks, p, FieldStart(toks, p, last))

\* c = <<i, sp>>: the match starts in the word at token i, which supplies
\* the letters sp
FieldSpan(toks, letters, p, c) ==
    SpanAfter(toks, p, FlexLast(toks, c[1], c[2], letters))

\* h = <<i, n, span>>: a match that starts in the word at token i, takes n
\* letters of it and has the field group span.  The leftmost start; at one
\* start the regex takes the longest opening.
FirstHit(hits) ==
    CHOOSE h \in hits : \A d \in hits :
        \/ h[1] < d[1]
        \/ h[1] = d[1] /\ h[2] >= d[2]

FieldText(toks, span) == Strip(Slice(toks, span[1], span[2]))

FieldOfHits(toks, hits) ==
    IF hits = {} THEN <<>> ELSE FieldText(toks, FirstHit(hits)[3])

\* re.search of pattern p; the stripped group(1) of the leftmost match,
\* <<>> when there is none
FieldMatch(toks, letters, p) ==
    FieldOfHits(toks,
        {h \in {<<c[1], Len(c[2]), FieldSpan(toks, letters, p, c)>> :
                    c \in UNION {{<<i, sp>> : sp \in Openings(toks, i)} :
                                    i \in 1..Len(toks)}} :
            h[3] # <<>>})

FIELD_REJECT_TERMS ==
    {"professor", "assistant", "associate", "director", "chair", "dean",
     "committee", "board", "faculty", "department", "workshop", "seminar",
     "training", "conference", "present", "current", "ongoing",
     "employment", "experience", "course", "module", "level", "fellow",
     "student", "advisor", "adviser", "mentor", "supervisor", "core",
     "modules"}

\* 'cum laude' in field_lower
HasCumLaude(toks) ==
    \E i \in 1..(Len(toks) - 2) :
        /\ IsW(toks[i]) /\ IsSpace(toks[i + 1]) /\ IsW(toks[i + 2])
        /\ "cum" \in FragmentsOf(<<toks[i]>>)
        /\ "laude" \in FragmentsOf(<<toks[i + 2]>>)

\* len(field.split())
SplitCount(toks) ==
    Cardinality({i \in 1..Len(toks) :
                    ~IsSpace(toks[i]) /\ (i = 1 \/ IsSpace(toks[i - 1]))})

is_valid_field(field) ==
    /\ field # <<>>
    /\ CharLen(field) >= 3
    /\ CharLen(field) <= 60
    /\ ~ContainsAny(field, INSTITUTION_KEYWORDS)
    /\ ~ContainsAny(field, FIELD_REJECT_TERMS)
    /\ ~ContainsAny(field, {"summa", "magna", "honors"})
    /\ ~HasCumLaude(field)
    /\ SplitCount(field) <= 6

\* re.sub(r'^(?:in|of|the)\s+', '', field)
DropLeadingWord(toks) ==
    IF IsWord(toks, 1, {"in", "of", "the"}) /\ Len(toks) >= 2 /\ IsSpace(toks[2])
    THEN Slice(toks, SkipBlanks(toks, 2), Len(toks))
    ELSE toks

\* re.sub(r'\s+(?:from|at|in)\s*$', '', field)
DropTrailingWord(toks) ==
    LET t == StripRight(toks)
        n == Len(t)
    IN  IF n >= 2 /\ IsWord(t, n, {"from", "at", "in"}) /\ IsSpace(t[n - 1])
        THEN StripRight(Slice(t, 1, n - 1))
        ELSE toks

clean_field(field) ==
    Strip(FixMultipleSpaces(DropTrailingWord(DropLeadingWord(field))))

\* if is_valid_field(field): return clean_field(field)
FieldOr(field, otherwise) ==
    IF is_valid_field(field) THEN clean_field(field) ELSE otherwise

\* Pattern 4: if 'concentration' in field.lower(): return None
UnlessConcentration(field) ==
    IF field # <<>> /\ "concentration" \in FragmentsOf(field) THEN <<>>
    ELSE FieldOr(field, <<>>)

FieldByLetters(text, letters) ==
    FieldOr(FieldMatch(text, letters, 1),
        FieldOr(FieldMatch(text, letters, 2),
            FieldOr(FieldMatch(text, letters, 3),
                UnlessConcentration(FieldMatch(text, letters, 4)))))

extract_field_strict(text, degree_type) ==
    FieldByLetters(text, DegreeLetters(degree_type))

(***************************************************************************)
(* find_degrees_strict and extract_degree_with_context.  Line indices      *)
(* count from 0 as in the source; lines[i + 1] is the line of index i.     *)
(***************************************************************************)
Mention(idx, entry) ==
    [line_index |-> idx, degree_type |-> entry.display, level |-> entry.level]

\* The scan depends on the line only.  Its values on the single lines of the
\* texts considered are worked out once and looked up afterwards; on any
\* other line it is evaluated.
MemoLines == {PreprocessLine(c) : c \in Corpus}

ScanMemo == [l \in MemoLines |-> ScanLine(l)]
Scanned(line) ==
    IF line \in MemoLines THEN ScanMemo[line] ELSE ScanLine(line)

\* the mention of the line of index i, if the scan finds a degree on it
MentionsOf(i, hit) ==
    IF hit = 0 THEN <<>> ELSE <<Mention(i, DEGREE_PATTERNS[hit])>>

\* the mentions of the lines of index i and above, in line order
RECURSIVE FindFrom(_, _)
FindFrom(lines, i) ==
    IF i >= Len(lines) THEN <<>>
    ELSE MentionsOf(i, Scanned(lines[i + 1])) \o FindFrom(lines, i + 1)

find_degrees_strict(lines) == FindFrom(lines, 0)

Degree(degree_type, field, institution, year, level, line_index) ==
    [degree_type |-> degree_type, field |-> field,
     institution |-> institution, year |-> year, level |-> level,
     line_index |-> line_index]

\* two iteration orders of KNOWN_INSTITUTIONS, which differ in which of
\* MIT and Wharton comes first
MitFirst ==
    <<"MIT", "Caltech", "INSEAD", "Wharton", "Kellogg", "Booth", "HEC",
      "LSE", "UCLA", "NYU", "USC", "CUNY", "SUNY">>
WhartonFirst ==
    <<"Wharton", "Kellogg", "Booth", "HEC", "LSE", "UCLA", "NYU", "USC",
      "CUNY", "SUNY", "MIT", "Caltech", "INSEAD">>
Orders == {MitFirst, WhartonFirst}

\* ' '.join of the line above (if any), the line itself, the line below
\* (if any)
TightContext(lines, line_idx) ==
    JoinSpace((IF line_idx > 0 THEN <<lines[line_idx]>> ELSE <<>>)
              \o <<lines[line_idx + 1]>>
              \o (IF line_idx < Len(lines) - 1
                  THEN <<lines[line_idx + 2]>> ELSE <<>>))

\* the section_headers local to extract_degree_with_context
CONTEXT_SECTION_HEADERS ==
    {"employment", "experience", "publications", "research", "teaching",
     "awards", "service", "references", "grants"}

\* for i in range(1, 6)
LookBackLimit == 5

\* a variant of LookBack that walks past the section headers
RECURSIVE LookBackAcrossHeaders(_, _, _, _)
LookBackAcrossHeaders(lines, line_idx, i, order) ==
    IF i > LookBackLimit \/ line_idx - i < 0 THEN <<>>
    ELSE Either(extract_institution_strict(Strip(lines[line_idx - i + 1]), order),
                LookBackAcrossHeaders(lines, line_idx, i + 1, order))

\* the loop over the lines above, from the i-th line above on
RECURSIVE LookBack(_, _, _, _)
LookBack(lines, line_idx, i, order) ==
    IF i > LookBackLimit \/ line_idx - i < 0 THEN <<>>
    ELSE IF ContainsAny(Strip(lines[line_idx - i + 1]), CONTEXT_SECTION_HEADERS)
    THEN <<>>
    ELSE Either(extract_institution_strict(Strip(lines[line_idx - i + 1]), order),
                LookBack(lines, line_idx, i + 1, order))

\* the first of two years that is one
EitherYear(a, b) == IF a # NoYear THEN a ELSE b

\* the year of the line above, if there is a line above
YearAbove(lines, line_idx) ==
    IF line_idx > 0 THEN extract_year_strict(lines[line_idx]) ELSE NoYear

\* the year of the line below, if there is a line below
YearBelow(lines, line_idx) ==
    IF line_idx < Len(lines) - 1 THEN extract_year_strict(lines[line_idx + 2])
    ELSE NoYear

\* a variant of extract_degree_with_context that looks for the year on the
\* line itself, then on the line above, then on the line below
extract_degree_above_first(lines, line_idx, degree_type, level, order) ==
    Degree(degree_type,
           Either(extract_field_strict(lines[line_idx + 1], degree_type),
                  extract_field_strict(TightContext(lines, line_idx), degree_type)),
           Either(extract_institution_strict(lines[line_idx + 1], order),
                  LookBack(lines, line_idx, 1, order)),
           EitherYear(extract_year_strict(lines[line_idx + 1]),
                      EitherYear(YearAbove(lines, line_idx),
                                 YearBelow(lines, line_idx))),
           level, line_idx)

extract_degree_with_context(lines, line_idx, degree_type, level, order) ==
    Degree(degree_type,
           Either(extract_field_strict(lines[line_idx + 1], degree_type),
                  extract_field_strict(TightContext(lines, line_idx), degree_type)),
           Either(extract_institution_strict(lines[line_idx + 1], order),
                  LookBack(lines, line_idx, 1, order)),
           EitherYear(extract_year_strict(lines[line_idx + 1]),
                      extract_year_strict(TightContext(lines, line_idx))),
           level, line_idx)

\* the indices of lines that TightContext reads
ContextReads(lines, line_idx) ==
    (IF line_idx > 0 THEN {line_idx - 1} ELSE {})
    \cup {line_idx}
    \cup (IF line_idx < Len(lines) - 1 THEN {line_idx + 1} ELSE {})

\* a variant of LookBackReads without the test 'if line_idx - i < 0: break'
RECURSIVE LookBackReadsUnguarded(_, _, _, _)
LookBackReadsUnguarded(lines, line_idx, i, order) ==
    IF i > LookBackLimit THEN {}
    ELSE {line_idx - i} \cup LookBackReadsUnguarded(lines, line_idx, i + 1, order)

\* the indices of lines that the loop over the lines above reads, from the
\* i-th line above on
RECURSIVE LookBackReads(_, _, _, _)
LookBackReads(lines, line_idx, i, order) ==
    IF i > LookBackLimit \/ line_idx - i < 0 THEN {}
    ELSE IF ContainsAny(Strip(lines[line_idx - i + 1]), CONTEXT_SECTION_HEADERS)
    THEN {line_idx - i}
    ELSE IF extract_institution_strict(Strip(lines[line_idx - i + 1]), order) # <<>>
    THEN {line_idx - i}
    ELSE {line_idx - i} \cup LookBackReads(lines, line_idx, i + 1, order)

\* the indices of lines that extract_degree_with_context reads
LinesRead(lines, line_idx, order) ==
    ContextReads(lines, line_idx)
    \cup (IF extract_institution_strict(lines[line_idx + 1], order) = <<>>
          THEN LookBackReads(lines, line_idx, 1, order)
          ELSE {})

(***************************************************************************)
(* deduplicate_degrees, select_best_degrees and the final sort             *)
(***************************************************************************)
\* s.lower()
LowerAll(toks) ==
    [i \in 1..Len(toks) |->
        IF IsW(toks[i]) THEN W(Lower(toks[i].s)) ELSE toks[i]]

\* a variant of the signature that compares field and institution as written
SignatureAsWritten(d) ==
    <<d.degree_type, d.level, d.field, d.institution, d.year>>

\* the signature sig of deduplicate_degrees
Signature(d) ==
    <<d.degree_type, d.level, LowerAll(d.field), LowerAll(d.institution), d.year>>

\* the loop of deduplicate_degrees: unique so far, degrees still to visit
RECURSIVE DedupLoop(_, _)
DedupLoop(unique, rest) ==
    IF rest = <<>> THEN unique
    ELSE IF \E k \in 1..Len(unique) : Signature(unique[k]) = Signature(Head(rest))
         THEN DedupLoop(unique, Tail(rest))
         ELSE DedupLoop(Append(unique, Head(rest)), Tail(rest))

deduplicate_degrees(degrees) == DedupLoop(<<>>, degrees)

\* list.sort(key=...): stable, an element goes after the elements whose key
\* is not above its own.  keys are tuples of numbers compared in order.
KeyLess(a, b) ==
    \E k \in 1..Len(a) : a[k] < b[k] /\ \A j \in 1..(k - 1) : a[j] = b[j]

RECURSIVE SortKeyed(_)
SortKeyed(pairs) ==
    IF pairs = <<>> THEN <<>>
    ELSE LET init == SortKeyed(Slice(pairs, 1, Len(pairs) - 1))
             x == pairs[Len(pairs)]
             at == Cardinality({k \in 1..Len(init) : ~KeyLess(x[1], init[k][1])})
         IN  Slice(init, 1, at) \o <<x>> \o Slice(init, at + 1, Len(init))

SortBy(seq, key(_)) ==
    LET sorted == SortKeyed([k \in 1..Len(seq) |-> <<key(seq[k]), seq[k]>>])
    IN  [k \in 1..Len(seq) |-> sorted[k][2]]

\* a variant of the sort key in which a missing year counts as the least
YearKeyBlankFirst(d) == d.year

\* d.year if d.year else '9999'
YearKey(d) == IF d.year # NoYear THEN d.year ELSE 9999

OfLevel(degrees, level) == SelectSeq(degrees, LAMBDA d : d.level = level)

phd_score(d) ==
    (IF d.institution # <<>> THEN 1 ELSE 0) + (IF d.year # NoYear THEN 1 ELSE 0)

\* seq[:n]
Take(seq, n) == Slice(seq, 1, IF Len(seq) < n THEN Len(seq) ELSE n)

MaxUndergrad == 2
MaxMasters == 2
MaxPhd == 1

\* a variant of select_best_degrees that does not cut the levels short
select_all_degrees(degrees) ==
    LET ByYear(d) == <<YearKey(d)>>
        ByScore(d) == <<0 - phd_score(d), YearKey(d)>>
    IN  SortBy(OfLevel(degrees, "undergrad"), ByYear)
        \o SortBy(OfLevel(degrees, "masters"), ByYear)
        \o SortBy(OfLevel(degrees, "phd"), ByScore)

select_best_degrees(degrees) ==
    LET ByYear(d) == <<YearKey(d)>>
        ByScore(d) == <<0 - phd_score(d), YearKey(d)>>
        undergrad == SortBy(OfLevel(degrees, "undergrad"), ByYear)
        masters == SortBy(OfLevel(degrees, "masters"), ByYear)
        phd == SortBy(OfLevel(degrees, "phd"), ByScore)
    IN  Take(undergrad, MaxUndergrad) \o Take(masters, MaxMasters)
        \o Take(phd, MaxPhd)

\* level_order.get(d.level, 3)
LevelOrder(level) ==
    CASE level = "phd" -> 0
      [] level = "masters" -> 1
      [] level = "undergrad" -> 2
      [] OTHER -> 3

\* a variant of the final sort that leaves the list as select_best_degrees
\* returned it
KeepOrder(degrees) == degrees

\* degrees.sort(key=lambda d: (level_order..., d.year or '9999'))
SortDegrees(degrees) ==
    LET ByLevelYear(d) == <<LevelOrder(d.level), YearKey(d)>>
    IN  SortBy(degrees, ByLevelYear)

(***************************************************************************)
(* extract_name_strict.  A pattern made of letters is matched on the words *)
(* of the line: as a whole word where the pattern has \b on both sides, at *)
(* the end or the start of a word where the lexicon records it.            *)
(***************************************************************************)
\* the reject_patterns of the form \bword\b
NAME_REJECT_WORDS ==
    {"cv", "resume", "professor", "director", "department", "university",
     "college", "school", "education", "experience", "street", "avenue",
     "road", "blvd", "building", "suite", "room"}

\* \bst\.\b, \bave\.\b, \brd\.\b
NAME_REJECT_ABBREVIATIONS == {"st", "ave", "rd"}

\* \bword\b at token i, for a word of ws (any case)
WholeWord(toks, i, ws) ==
    IsWord(toks, i, ws) /\ ~WordCharAt(toks, i - 1) /\ ~WordCharAt(toks, i + 1)

\* the word at token i ends with the fragment f (any case)
ClosesWith(toks, i, f) ==
    /\ WordAt(toks, i)
    /\ toks[i].s \in DOMAIN HeadBefore
    /\ f \in DOMAIN HeadBefore[toks[i].s]

\* the word at token i starts with one of the fragments fs (any case)
OpensWithAny(toks, i, fs) ==
    /\ WordAt(toks, i)
    /\ Lower(toks[i].s) \in DOMAIN OpensWith
    /\ OpensWith[Lower(toks[i].s)] \cap fs # {}

\* a run of at least n digits at token i
DigitsAt(toks, i, n) ==
    i >= 1 /\ i <= Len(toks) /\ IsN(toks[i]) /\ NumLen(toks[i].n) >= n

\* curriculum\s+vita
CurriculumVitae(toks, i) ==
    ClosesWith(toks, i, "curriculum")
    /\ OpensWithAny(toks, AfterBlanks(toks, i), {"vita"})

\* \d{3}[-.\s]?\d{3}
PhoneLike(toks, i) ==
    \/ DigitsAt(toks, i, 6)
    \/ /\ DigitsAt(toks, i, 3)
       /\ IsPunct(toks, i + 1, {"-", "."}) \/ (i < Len(toks) /\ IsSpace(toks[i + 1]))
       /\ DigitsAt(toks, i + 2, 3)

\* \bst\.\b and the like: the dot is followed by a letter or a digit
AbbreviationAt(toks, i) ==
    /\ IsWord(toks, i, NAME_REJECT_ABBREVIATIONS)
    /\ ~WordCharAt(toks, i - 1)
    /\ IsPunct(toks, i + 1, {"."})
    /\ WordCharAt(toks, i + 2)

\* one of the reject_patterns that starts at token i
RejectAt(toks, i) ==
    \/ WholeWord(toks, i, NAME_REJECT_WORDS)
    \/ CurriculumVitae(toks, i)
    \/ IsPunct(toks, i, {"@"})
    \/ PhoneLike(toks, i)
    \/ DigitsAt(toks, i, 5)
    \/ ClosesWith(toks, i, "www") /\ IsPunct(toks, i + 1, {"."})
    \/ AbbreviationAt(toks, i)

\* any(re.search(p, line, re.IGNORECASE) for p in reject_patterns)
NameRejected(toks) ==
    ContainsAny(toks, {"http"}) \/ \E i \in 1..Len(toks) : RejectAt(toks, i)

\* what is left of the tokens before token i when a match starts with
\* fragment f of the word at token i, the blanks before the match being
\* part of it when blanks is TRUE
BeforeMatch(toks, i, f, blanks) ==
    IF HeadBefore[toks[i].s][f] # ""
    THEN Slice(toks, 1, i - 1) \o <<W(HeadBefore[toks[i].s][f])>>
    ELSE IF blanks THEN StripRight(Slice(toks, 1, i - 1))
    ELSE Slice(toks, 1, i - 1)

NAME_DATE_WORDS == {"revised", "updated"}

\* what stands for "the pattern does not match" where a match gives tokens
NoMatch == <<P("no match")>>

NAME_MONTHS ==
    {"january", "february", "march", "april", "may", "june", "july",
     "august", "september", "october", "november", "december"}

\* the fragment of fs the word at token i ends with ("" when none)
ClosingOf(toks, i, fs) ==
    IF \E f \in fs : ClosesWith(toks, i, f)
    THEN CHOOSE f \in fs : ClosesWith(toks, i, f)
    ELSE ""

\* the last token of the run of letters and digits that starts at token k
WordRunEnd(toks, k) ==
    Greatest({e \in k..Len(toks) : \A r \in k..e : IsWordChar(toks[r])})

\* ,?\s* from token q on: the first token after it
AfterComma(toks, q) ==
    SkipBlanks(toks, IF IsPunct(toks, q, {","}) THEN q + 1 ELSE q)

\* the digits of a numeral after its first four, <<>> when there are four
RestOfDigits(num) ==
    IF NumLen(num) > 4
    THEN <<N(Value(SubSeq(Digits(num), 5, NumLen(num))))>>
    ELSE <<>>

\* \w+,?\s*\d{4} with \w+ starting at token k and taking the whole run of
\* letters and digits up to token e, or all of it but its last four digits:
\* what is left of the line after the match, NoMatch when there is none
AfterDate(toks, k, e) ==
    IF DigitsAt(toks, AfterComma(toks, e + 1), 4)
    THEN RestOfDigits(toks[AfterComma(toks, e + 1)].n)
         \o Slice(toks, AfterComma(toks, e + 1) + 1, Len(toks))
    ELSE IF DigitsAt(toks, e, 4) /\ (e > k \/ DigitsAt(toks, e, 5))
    THEN Slice(toks, e + 1, Len(toks))
    ELSE NoMatch

\* \s*:\s*\w+,?\s*\d{4} after token i: what is left of the line after the
\* match, NoMatch when there is none
AfterColon(toks, c) ==
    IF IsPunct(toks, c, {":"}) /\ WordCharAt(toks, SkipBlanks(toks, c + 1))
    THEN AfterDate(toks, SkipBlanks(toks, c + 1),
                   WordRunEnd(toks, SkipBlanks(toks, c + 1)))
    ELSE NoMatch

\* \s*(?:Revised|Updated)\s*:\s*\w+,?\s*\d{4} with the word at token i
RevisedAt(toks, i) ==
    IF ClosingOf(toks, i, NAME_DATE_WORDS) = "" THEN NoMatch
    ELSE AfterColon(toks, SkipBlanks(toks, i + 1))

\* re.sub of that pattern with '': every match is removed
RECURSIVE DropRevisedFrom(_, _)
DropRevisedFrom(toks, i) ==
    IF i > Len(toks) THEN toks
    ELSE IF RevisedAt(toks, i) = NoMatch THEN DropRevisedFrom(toks, i + 1)
    ELSE DropRevisedFrom(
             BeforeMatch(toks, i, ClosingOf(toks, i, NAME_DATE_WORDS), TRUE)
             \o RevisedAt(toks, i), 1)

DropRevised(toks) == DropRevisedFrom(toks, 1)

\* \s*(?:January|...|December)\s*,?\s*\d{4}\s*$ with the month at token i
MonthYearAt(toks, i) ==
    /\ ClosingOf(toks, i, NAME_MONTHS) # ""
    /\ DigitsAt(toks, AfterComma(toks, SkipBlanks(toks, i + 1)), 4)
    /\ ~DigitsAt(toks, AfterComma(toks, SkipBlanks(toks, i + 1)), 5)
    /\ AllSpace(toks, AfterComma(toks, SkipBlanks(toks, i + 1)) + 1, Len(toks))

\* re.sub of that pattern with ''
DropMonthYearAt(toks, hits) ==
    IF hits = {} THEN toks
    ELSE BeforeMatch(toks, Least(hits),
                     ClosingOf(toks, Least(hits), NAME_MONTHS), TRUE)

DropMonthYear(toks) ==
    DropMonthYearAt(toks, {i \in 1..Len(toks) : MonthYearAt(toks, i)})

\* sum(1 for c in clean_line if c.isalpha() or c.isspace() or c in '.-,\'')
RECURSIVE AlphaCount(_)
AlphaCount(toks) ==
    IF toks = <<>> THEN 0
    ELSE (CASE IsW(Head(toks)) -> LetterCount(Head(toks))
            [] IsSpace(Head(toks)) -> 1
            [] IsPunct(toks, 1, {".", "-", ",", "'"}) -> 1
            [] OTHER -> 0) + AlphaCount(Tail(toks))

\* the fragment with which Ph\.?D, M\.?D or J\.?D starts at the end of the
\* word at token i, a dot and a d following ("" when none does)
DottedCredential(toks, i) ==
    IF IsPunct(toks, i + 1, {"."}) /\ OpensWithAny(toks, i + 2, {"d"})
    THEN ClosingOf(toks, i, {"ph", "m", "j"})
    ELSE ""

\* (?:Ph\.?D\.?|MBA|M\.?D\.?|J\.?D\.?|CPA|CFA|CFP) starts in the word at
\* token i
CredentialAt(toks, i) ==
    /\ WordAt(toks, i)
    /\ toks[i].s \in DOMAIN CredentialHead \/ DottedCredential(toks, i) # ""

\* what the line keeps when the leftmost credential starts at token i
BeforeCredential(toks, i) ==
    IF toks[i].s \in DOMAIN CredentialHead
    THEN Slice(toks, 1, i - 1)
         \o (IF CredentialHead[toks[i].s] # ""
             THEN <<W(CredentialHead[toks[i].s])>> ELSE <<>>)
    ELSE BeforeMatch(toks, i, DottedCredential(toks, i), FALSE)

CutCredentialsAt(toks, hits) ==
    IF hits = {} THEN toks ELSE BeforeCredential(toks, Least(hits))

\* re.sub(r',?\s*(?:Ph\.?D\.?|MBA|...|CFP).*$', '', clean_line); the comma
\* and the blanks before the credential go with name.strip(' ,.;:')
CutCredentials(toks) ==
    CutCredentialsAt(toks, {i \in 1..Len(toks) : CredentialAt(toks, i)})

IsNameStripped(t) == IsSpace(t) \/ (t.k = "p" /\ t.s \in {",", ".", ";", ":"})

\* name.strip(' ,.;:')
RECURSIVE StripName(_)
StripName(toks) ==
    IF toks = <<>> THEN toks
    ELSE IF IsNameStripped(toks[1]) THEN StripName(Tail(toks))
    ELSE IF IsNameStripped(toks[Len(toks)])
         THEN StripName(Slice(toks, 1, Len(toks) - 1))
    ELSE toks

\* if len(name.split()) >= 2: return name
NameIfTwoWords(name) == IF SplitCount(name) >= 2 THEN name ELSE <<>>

\* the tests on clean_line and the name it gives, <<>> when it gives none
NameOfClean(clean_line) ==
    IF SplitCount(clean_line) < 2 \/ SplitCount(clean_line) > 5 THEN <<>>
    ELSE IF AlphaCount(clean_line) * 100 < 85 * CharLen(clean_line) THEN <<>>
    ELSE NameIfTwoWords(StripName(CutCredentials(clean_line)))

\* the loop body for a stripped line
NameOfStripped(line) ==
    IF line = <<>> \/ CharLen(line) < 5 THEN <<>>
    ELSE IF NameRejected(line) THEN <<>>
    ELSE NameOfClean(Strip(DropMonthYear(DropRevised(line))))

\* the loop body for one line: the name it gives, <<>> when it is skipped
NameOfLine(line) == NameOfStripped(Strip(line))

\* text.strip() takes the blank lines at the head of the text away
RECURSIVE DropBlankLines(_)
DropBlankLines(lns) ==
    IF lns # <<>> /\ Strip(Head(lns)) = <<>> THEN DropBlankLines(Tail(lns))
    ELSE lns

\* for line in lines[:15]
NameWindow == 15

\* the first line, in order, that gives a name
RECURSIVE FirstName(_)
FirstName(lns) ==
    IF lns = <<>> THEN <<>>
    ELSE Either(NameOfLine(Head(lns)), FirstName(Tail(lns)))

\* a variant of extract_name_strict that takes the first line that is not
\* blank as it stands
first_line_as_name(lns) ==
    IF DropBlankLines(lns) = <<>> THEN <<>>
    ELSE Strip(Head(DropBlankLines(lns)))

\* lns: the lines of the text
extract_name_strict(lns) == FirstName(Take(DropBlankLines(lns), NameWindow))

(***************************************************************************)
(* parse_education as a state machine: one run over one text, in one       *)
(* process.  KNOWN_INSTITUTIONS is a Python set of strings; the order in   *)
(* which the loop of extract_institution_strict visits it is fixed when    *)
(* the process starts (string hashing is randomised per process) and is    *)
(* part of the state.                                                      *)
(***************************************************************************)
\* the longest text considered, in lines
MaxLines == 3

Texts == UNION {[1..n -> Corpus] : n \in 1..MaxLines}

\* the text "" is the one text whose split('\n') is a single empty line
EmptyText == <<L_Blank>>

\* the three re.sub calls; none of them matches across a line break
Preprocess(txt) == [i \in 1..Len(txt) |-> PreprocessLine(txt[i])]

\* a variant of the retention test that asks for the degree label only
KeepsLabelled(d) == d.degree_type # ""

\* if degree.degree_type and degree.institution
Keeps(d) == d.degree_type # "" /\ d.institution # <<>>

\* degrees.append(degree) if the degree is kept
Retained(degree) == IF Keeps(degree) THEN <<degree>> ELSE <<>>

\* the degree of the mention m
DegreeOf(lns, m, ord) ==
    extract_degree_with_context(lns, m.line_index, m.degree_type, m.level, ord)

\* the loop over degree_matches, run to its end
RECURSIVE ExtractAll(_, _, _)
ExtractAll(lns, matches, ord) ==
    IF matches = <<>> THEN <<>>
    ELSE Retained(DegreeOf(lns, Head(matches), ord))
         \o ExtractAll(lns, Tail(matches), ord)

\* record.degrees of parse_education(txt) in a process whose set order is ord
parse_education(txt, ord) ==
    IF txt = EmptyText THEN <<>>
    ELSE LET lns == Preprocess(txt)
         IN  SortDegrees(select_best_degrees(deduplicate_degrees(
                 ExtractAll(lns, find_degrees_strict(lns), ord))))

VARIABLES
    text,            \* the argument text of parse_education, as its lines
    filename,        \* the argument filename of parse_education
    order,           \* the iteration order of KNOWN_INSTITUTIONS
    pc,              \* the statement the program is at
    lines,           \* lines (after preprocessing)
    degree_matches,  \* the mentions the loop has still to visit
    reads,           \* the indices of lines the last turn of the loop read
    degrees,         \* degrees, as the loop leaves it
    unique,          \* the result of deduplicate_degrees
    selected,        \* the result of select_best_degrees
    record_name,     \* record.name
    record_cv_filename, \* record.cv_filename
    record_degrees,  \* record.degrees
    record_notes,    \* record.notes
    row,             \* the result of build_csv_row
    directory,       \* the names of the PDF files of INPUT_DIR
    pdf_files,       \* pdf_files of run_pipeline
    records,         \* records of run_pipeline
    errors           \* errors of run_pipeline

\* the arguments of parse_education and the process it runs in
input_vars == <<text, filename, order>>

\* the locals of parse_education
local_vars == <<lines, degree_matches, reads, degrees, unique, selected>>

\* the record parse_education builds
record_vars ==
    <<record_name, record_cv_filename, record_degrees, record_notes>>

\* the state of build_csv_row and run_pipeline
pipeline_vars == <<row, directory, pdf_files, records, errors>>

vars == <<input_vars, pc, local_vars, record_vars, pipeline_vars>>

\* the filename labels considered
Filenames == {"", "cv.pdf"}

\* nothing built or listed yet
PipelineIdle ==
    /\ row = <<>>
    /\ directory = {}
    /\ pdf_files = <<>>
    /\ records = <<>>
    /\ errors = <<>>

\* record = EducationRecord(cv_filename=filename)
Init ==
    /\ text \in Texts
    /\ filename \in Filenames
    /\ order \in Orders
    /\ pc = "start"
    /\ lines = <<>>
    /\ degree_matches = <<>>
    /\ reads = {}
    /\ degrees = <<>>
    /\ unique = <<>>
    /\ selected = <<>>
    /\ record_name = <<>>
    /\ record_cv_filename = filename
    /\ record_degrees = <<>>
    /\ record_notes = <<>>
    /\ PipelineIdle

\* a variant of the branch for an empty text that attaches no note
NoTextSilent ==
    /\ pc = "start"
    /\ text = EmptyText
    /\ pc' = "done"
    /\ UNCHANGED <<input_vars, local_vars, record_vars, pipeline_vars>>

\* if not text: record.notes.append("No text provided"); return record
NoText ==
    /\ pc = "start"
    /\ text = EmptyText
    /\ record_notes' = Append(record_notes, "No text provided")
    /\ pc' = "done"
    /\ UNCHANGED <<input_vars, local_vars, record_name, record_cv_filename,
                   record_degrees, pipeline_vars>>

\* preprocessing, record.name = extract_name_strict(text),
\* lines = text.split('\n'), find_degrees_strict(text)
FindDegrees ==
    /\ pc = "start"
    /\ text # EmptyText
    /\ lines' = Preprocess(text)
    /\ record_name' = extract_name_strict(lines')
    /\ degree_matches' = find_degrees_strict(lines')
    /\ pc' = "extract"
    /\ UNCHANGED <<input_vars, reads, degrees, unique, selected,
                   record_cv_filename, record_degrees, record_notes,
                   pipeline_vars>>

\* one turn of the loop over degree_matches
ExtractDegree ==
    /\ pc = "extract"
    /\ degree_matches # <<>>
    /\ degrees' = degrees \o Retained(DegreeOf(lines, Head(degree_matches), order))
    /\ reads' = LinesRead(lines, Head(degree_matches).line_index, order)
    /\ degree_matches' = Tail(degree_matches)
    /\ UNCHANGED <<input_vars, pc, lines, unique, selected, record_vars,
                   pipeline_vars>>

\* degrees = deduplicate_degrees(degrees)
Deduplicate ==
    /\ pc = "extract"
    /\ degree_matches = <<>>
    /\ unique' = deduplicate_degrees(degrees)
    /\ pc' = "select"
    /\ UNCHANGED <<input_vars, lines, degree_matches, reads, degrees,
                   selected, record_vars, pipeline_vars>>

\* degrees = select_best_degrees(degrees)
SelectBest ==
    /\ pc = "select"
    /\ selected' = select_best_degrees(unique)
    /\ pc' = "sort"
    /\ UNCHANGED <<input_vars, lines, degree_matches, reads, degrees, unique,
                   record_vars, pipeline_vars>>

\* if not degrees: record.notes.append("NO EDUCATION FOUND (unexpected)")
EducationNote(degrees_found, notes) ==
    IF degrees_found = <<>>
    THEN Append(notes, "NO EDUCATION FOUND (unexpected)")
    ELSE notes

\* EducationRecord
Record(name, cv_filename, degrees_found, notes) ==
    [name |-> name, cv_filename |-> cv_filename, degrees |-> degrees_found,
     notes |-> notes]

\* the record of a text that is not empty, given its name and its degrees
RecordOf(name, fname, degrees_found) ==
    Record(name, fname, degrees_found, EducationNote(degrees_found, <<>>))

\* the record parse_education(txt, fname) returns in a process whose set
\* order is ord
parse_record(txt, fname, ord) ==
    IF txt = EmptyText
    THEN Record(<<>>, fname, <<>>, <<"No text provided">>)
    ELSE RecordOf(extract_name_strict(Preprocess(txt)), fname,
                  parse_education(txt, ord))

\* a variant of the last step that attaches no note
FinishSilent ==
    /\ pc = "sort"
    /\ record_degrees' = SortDegrees(selected)
    /\ pc' = "done"
    /\ UNCHANGED <<input_vars, local_vars, record_name, record_cv_filename,
                   record_notes, pipeline_vars>>

\* the final sort, record.degrees = degrees, the note, return record
Finish ==
    /\ pc = "sort"
    /\ record_degrees' = SortDegrees(selected)
    /\ record_notes' = EducationNote(record_degrees', record_notes)
    /\ pc' = "done"
    /\ UNCHANGED <<input_vars, local_vars, record_name, record_cv_filename,
                   pipeline_vars>>

Next ==
    \/ NoText
    \/ FindDegrees
    \/ ExtractDegree
    \/ Deduplicate
    \/ SelectBest
    \/ Finish

Spec == Init /\ [][Next]_vars

(***************************************************************************)
(* Properties                                                              *)
(***************************************************************************)
Count(seq, level) == Len(OfLevel(seq, level))

\* the line a degree was found on
LineOf(d) == lines[d.line_index + 1]

\* C1: the returned record holds at most 2 degrees of level undergrad, at
\* most 2 of level masters and at most 1 of level phd, however many
\* mentions the text contains.
C1_LevelBounds ==
    /\ Count(record_degrees, "undergrad") <= 2
    /\ Count(record_degrees, "masters") <= 2
    /\ Count(record_degrees, "phd") <= 1

\* a returned record cut down from three or more distinct undergraduate
\* degrees to two
C1_Witness ==
    /\ pc = "done"
    /\ Count(unique, "undergrad") >= 3
    /\ Count(record_degrees, "undergrad") = 2

\* C2: every degree of the returned record has a non-empty institution; a
\* mention for which none is recovered is discarded.
C2_InstitutionPresent ==
    \A k \in 1..Len(record_degrees) : record_degrees[k].institution # <<>>

\* a returned record with a degree in it, one mention of the text having
\* been discarded for want of an institution
C2_Witness ==
    /\ pc = "done"
    /\ record_degrees # <<>>
    /\ Len(degrees) < Len(find_degrees_strict(lines))

\* C3: the year of every returned degree is empty or four digits with a
\* value in 1950..2035.
C3_YearInRange ==
    \A k \in 1..Len(record_degrees) :
        \/ record_degrees[k].year = NoYear
        \/ /\ NumLen(record_degrees[k].year) = 4
           /\ record_degrees[k].year >= 1950
           /\ record_degrees[k].year <= 2035

\* C4: the record returned for a text is the record any invocation on the
\* same text returns, whatever the iteration order of KNOWN_INSTITUTIONS.
C4_SameRecordAnyOrder ==
    pc = "done" => \A o \in Orders : parse_education(text, o) = record_degrees

\* the hard filter matches the line
ExcludedMemo == [l \in MemoLines |-> IsExcluded(Strip(l))]
Excluded(line) ==
    IF line \in MemoLines THEN ExcludedMemo[line] ELSE IsExcluded(Strip(line))

NoneOnLine(seq, i) == \A k \in 1..Len(seq) : seq[k].line_index # i

\* C5: a line an exclusion pattern matches yields no mention, whatever
\* degree token it holds, and no degree has it as its line_index.
C5_ExclusionVeto ==
    \A i \in 0..(Len(lines) - 1) :
        Excluded(lines[i + 1]) =>
            /\ NoneOnLine(degree_matches, i)
            /\ NoneOnLine(degrees, i)
            /\ NoneOnLine(unique, i)
            /\ NoneOnLine(selected, i)
            /\ NoneOnLine(record_degrees, i)

\* a returned record with a degree in it, the text holding below a line
\* with an institution a line with a degree token and an employment title
C5_Witness ==
    /\ pc = "done"
    /\ record_degrees # <<>>
    /\ \E i \in 1..(Len(lines) - 1) :
        /\ Excluded(lines[i + 1])
        /\ FirstDegree(Strip(lines[i + 1])) # 0
        /\ Search(AnyWord({"professor"}), lines[i + 1])
        /\ extract_institution_strict(lines[i], order) # <<>>

\* the free-standing four-digit years in 1950..2035 that a dash joins
\* into a range: the pairs <<left year, right year>> of a line
InRangeYear(toks, i) ==
    /\ i >= 1 /\ i <= Len(toks) /\ IsN(toks[i])
    /\ NumLen(toks[i].n) = 4
    /\ toks[i].n >= 1950 /\ toks[i].n <= 2035
    /\ ~WordCharAt(toks, i - 1)
    /\ ~WordCharAt(toks, i + 1)

RangesOf(toks) ==
    {<<toks[i].n, toks[j].n>> : <<i, j>> \in
        {ij \in (1..Len(toks)) \X (1..Len(toks)) :
            /\ InRangeYear(toks, ij[1]) /\ InRangeYear(toks, ij[2])
            /\ ij[1] < ij[2]
            /\ \E d \in (ij[1] + 1)..(ij[2] - 1) :
                /\ IsPunct(toks, d, Dashes)
                /\ AllSpace(toks, ij[1] + 1, d - 1)
                /\ AllSpace(toks, d + 1, ij[2] - 1)}}

Larger(pair) == IF pair[1] > pair[2] THEN pair[1] ELSE pair[2]

\* C6 as stated: a degree found on a line that holds a range of two
\* in-range years has the later (numerically larger) year of a range.
C6_LaterYearOfRange ==
    \A k \in 1..Len(degrees) :
        RangesOf(LineOf(degrees[k])) # {} =>
            degrees[k].year \in {Larger(r) : r \in RangesOf(LineOf(degrees[k]))}

\* the places of a line where two groups of four digits of the form
\* 19[5-9]d or 20[0-3]d stand on the two sides of a dash
PairsAt(toks) == {i \in 1..Len(toks) : RangeRight(toks, i) # 0}

\* C6: a degree found on a line that holds two year-like groups of four
\* digits joined by a dash has the right-hand group of the leftmost such
\* pair as its year, whether or not it is the larger of the two.
C6_RightYearOfRange ==
    \A k \in 1..Len(degrees) :
        LET line == LineOf(degrees[k])
        IN  PairsAt(line) # {} =>
                degrees[k].year =
                    First4(line[RangeRight(line, Least(PairsAt(line)))].n)

\* a returned degree whose line holds a range that runs downwards, its
\* year being the right-hand, smaller one
C6_Witness ==
    /\ pc = "done"
    /\ \E k \in 1..Len(record_degrees) :
        \E r \in RangesOf(LineOf(record_degrees[k])) :
            r[1] > r[2] /\ record_degrees[k].year = r[2]

\* the allow-listed short forms that stand on a line as words
ShortFormsOn(line) == {k \in KNOWN_INSTITUTIONS : KnownFound(line, k)}

\* the 'University of X' name of a line (cleaned), <<>> when it has none
UniversityOfOn(line) == Candidate(line, SearchUniversityOf(line))

\* the degree has no institution on its own line, and the line right
\* above it, which is no section header, holds an allow-listed short form
\* and a valid 'University of X' name
BothFormsAbove(d) ==
    /\ d.line_index >= 1
    /\ extract_institution_strict(LineOf(d), order) = <<>>
    /\ LET above == Strip(lines[d.line_index])
       IN  /\ ~ContainsAny(above, CONTEXT_SECTION_HEADERS)
           /\ ShortFormsOn(above) # {}
           /\ is_valid_institution(UniversityOfOn(above))

\* C7 as stated: such a degree resolves to the 'University of X' name of
\* the line above ("University of Pennsylvania" for the Ph.D. under "The
\* Wharton School, University of Pennsylvania").
C7_UniversityOfWins ==
    \A k \in 1..Len(degrees) :
        BothFormsAbove(degrees[k]) =>
            degrees[k].institution = UniversityOfOn(lines[degrees[k].line_index])

\* C7: such a degree resolves to an allow-listed short form of the line
\* above ("Wharton" for the Ph.D. under "The Wharton School, University of
\* Pennsylvania"): the allow-list is tried before the structural patterns.
C7_ShortFormWins ==
    \A k \in 1..Len(degrees) :
        BothFormsAbove(degrees[k]) =>
            degrees[k].institution \in
                {<<W(s)>> : s \in ShortFormsOn(lines[degrees[k].line_index])}

\* the record returned for the two lines "The Wharton School, University of
\* Pennsylvania" and "Ph.D., Finance": one Ph.D. with institution Wharton
C7_Witness ==
    /\ pc = "done"
    /\ text = <<L_Wharton, L_PhdFinance>>
    /\ Len(record_degrees) = 1
    /\ BothFormsAbove(record_degrees[1])
    /\ record_degrees[1].degree_type = "Ph.D."
    /\ record_degrees[1].institution = <<W("Wharton")>>

\* the composite key: label, level, lower-cased field, lower-cased
\* institution, year
CompositeKey(d) ==
    <<d.degree_type, d.level, LowerAll(d.field), LowerAll(d.institution), d.year>>

\* the positions of the retained candidates whose key no earlier one has
FirstOfKey ==
    {k \in 1..Len(degrees) :
        \A j \in 1..(k - 1) : CompositeKey(degrees[j]) # CompositeKey(degrees[k])}

\* C8: the deduplicated list holds, in document order, exactly the first
\* retained candidate of every composite key: one degree for each key, and
\* a degree for every key.
C8_OnePerKey ==
    pc \in {"select", "sort", "done"} =>
        /\ Len(unique) = Cardinality(FirstOfKey)
        /\ \A u \in 1..Len(unique) :
            \E k \in FirstOfKey :
                /\ Cardinality({j \in FirstOfKey : j <= k}) = u
                /\ unique[u] = degrees[k]
        /\ \A u, v \in 1..Len(unique) :
            u # v => CompositeKey(unique[u]) # CompositeKey(unique[v])
        /\ \A k \in 1..Len(degrees) :
            \E u \in 1..Len(unique) :
                CompositeKey(unique[u]) = CompositeKey(degrees[k])

\* a deduplicated list that dropped a candidate which differs from the
\* one kept in the case of its field only, and kept two different keys
C8_Witness ==
    /\ pc = "select"
    /\ Len(unique) >= 2
    /\ \E j, k \in 1..Len(degrees) :
        /\ j < k
        /\ CompositeKey(degrees[j]) = CompositeKey(degrees[k])
        /\ degrees[j].field # degrees[k].field
        /\ \E u \in 1..Len(unique) : unique[u] = degrees[j]
        /\ \A u \in 1..Len(unique) : unique[u] # degrees[k]

\* C9: every non-empty field of a returned degree satisfies the field
\* validation rules (3 to 60 characters, at most 6 words, no institution
\* keyword, no employment/service/training vocabulary, no honors phrase).
C9_FieldValid ==
    \A k \in 1..Len(record_degrees) :
        record_degrees[k].field # <<>> => is_valid_field(record_degrees[k].field)

\* where a level stands in the returned sequence
LevelRank(level) ==
    CASE level = "phd" -> 1 [] level = "masters" -> 2 [] OTHER -> 3

\* C10: the returned degrees are ordered: phd, then masters, then
\* undergrad; within a level by ascending year, the degrees without a year
\* after those with one.
C10_Ordered ==
    \A i, j \in 1..Len(record_degrees) :
        i < j =>
            LET a == record_degrees[i]
                b == record_degrees[j]
            IN  \/ LevelRank(a.level) < LevelRank(b.level)
                \/ /\ a.level = b.level
                   /\ \/ b.year = NoYear
                      \/ a.year # NoYear /\ a.year <= b.year

\* a returned record of three degrees that the final sort reordered,
\* with a degree without a year after one of its level that has one
C10_Witness ==
    /\ pc = "done"
    /\ Len(record_degrees) = 3
    /\ record_degrees # selected
    /\ \E i, j \in 1..Len(record_degrees) :
        /\ i < j
        /\ record_degrees[i].level = record_degrees[j].level
        /\ record_degrees[i].year # NoYear
        /\ record_degrees[j].year = NoYear

\* C11: parse_education called with the empty text returns a record with an
\* empty name, no degrees, the filename label it was given and the note "No
\* text provided", and none of its extraction steps has run: its locals are
\* as they were at the start.
C11_EmptyInput ==
    (pc = "done" /\ text = EmptyText) =>
        /\ record_name = <<>>
        /\ record_degrees = <<>>
        /\ record_cv_filename = filename
        /\ record_notes = <<"No text provided">>
        /\ lines = <<>> /\ degree_matches = <<>> /\ reads = {}
        /\ degrees = <<>> /\ unique = <<>> /\ selected = <<>>

\* the call with the empty text and a filename label has returned
C11_Witness ==
    /\ pc = "done"
    /\ text = EmptyText
    /\ filename = "cv.pdf"
    /\ record_cv_filename = "cv.pdf"
    /\ record_notes # <<>>

\* C12: for a text that is not empty, the returned record carries the note
\* "NO EDUCATION FOUND (unexpected)" exactly when it has no degrees, be it
\* that no mention was found or that every mention was dropped.
C12_NoteIffNoDegrees ==
    (pc = "done" /\ text # EmptyText) =>
        ((record_degrees = <<>>) <=>
            (\E k \in 1..Len(record_notes) :
                record_notes[k] = "NO EDUCATION FOUND (unexpected)"))

\* a returned record without degrees for a text in which a mention was
\* found and dropped for want of an institution
C12_Witness ==
    /\ pc = "done"
    /\ text # EmptyText
    /\ reads # {}
    /\ record_degrees = <<>>
    /\ record_notes = <<"NO EDUCATION FOUND (unexpected)">>

\* the steps parse_education has left at most before it returns
StepsLeft ==
    CASE pc = "start" -> Len(text) + 4
      [] pc = "extract" -> Len(degree_matches) + 3
      [] pc = "select" -> 2
      [] pc = "sort" -> 1
      [] pc = "done" -> 0

\* the conditions under which parse_education has a step to take
CanStep ==
    \/ pc = "start" /\ (text = EmptyText \/ text # EmptyText)
    \/ pc = "extract" /\ (degree_matches # <<>> \/ degree_matches = <<>>)
    \/ pc = "select"
    \/ pc = "sort"

NoNameLine ==
    \A k \in 1..Len(Take(lines, NameWindow)) : NameOfLine(lines[k]) = <<>>

\* the notes parse_education attaches for the text and for the degrees
KNOWN_NOTES == {"No text provided", "NO EDUCATION FOUND (unexpected)"}

\* a note about something else than the text or the degrees is attached
HasOtherNote ==
    \E k \in 1..Len(record_notes) : record_notes[k] \notin KNOWN_NOTES

\* C14 (as stated): when no line among the first 15 lines gives a name, the
\* returned record has an empty name and a note about the missing name is
\* attached to its notes.
C14_MissingNameNoted ==
    (pc = "done" /\ text # EmptyText /\ NoNameLine) =>
        (record_name = <<>> /\ HasOtherNote)

\* C14 (amended): when no line among the first 15 lines gives a name, the
\* returned record has an empty name and no note about it: its notes are
\* at most the note about the degrees.
C14_MissingNameSilent ==
    (pc = "done" /\ text # EmptyText /\ NoNameLine) =>
        (record_name = <<>> /\ ~HasOtherNote)

\* a record returned without a name and without any note, for a text with
\* degrees in which no line gives a name
C14_Witness ==
    /\ pc = "done"
    /\ text # EmptyText
    /\ NoNameLine
    /\ record_name = <<>>
    /\ record_degrees # <<>>
    /\ record_notes = <<>>

\* the characters of a token sequence, as written
DIGIT_CHARS == <<"0", "1", "2", "3", "4", "5", "6", "7", "8", "9">>

CharsOfToken(t) ==
    CASE IsW(t) -> Letters[t.s]
      [] IsN(t) -> [i \in 1..NumLen(t.n) |-> DIGIT_CHARS[Digits(t.n)[i] + 1]]
      [] OTHER -> <<t.s>>

RECURSIVE Chars(_)
Chars(toks) ==
    IF toks = <<>> THEN <<>> ELSE CharsOfToken(Head(toks)) \o Chars(Tail(toks))

\* value in line, both as characters
IsSubstring(value, line) ==
    \E i \in 0..(Len(line) - Len(value)) :
        SubSeq(line, i + 1, i + Len(value)) = value

\* the value stands, as written, on one of the lines of index lo..hi of the
\* text given to parse_education
OccursIn(value, txt, lo, hi) ==
    \E i \in lo..hi :
        /\ i >= 0
        /\ i < Len(txt)
        /\ IsSubstring(Chars(value), Chars(txt[i + 1]))

\* the windows of a degree: its line and the lines directly above and below
\* for the field and the year, its line and the five lines above for the
\* institution
DegreeLiteral(d, txt) ==
    /\ OccursIn(d.institution, txt, d.line_index - LookBackLimit, d.line_index)
    /\ d.field # <<>> => OccursIn(d.field, txt, d.line_index - 1, d.line_index + 1)
    /\ d.year # NoYear =>
           OccursIn(<<N(d.year)>>, txt, d.line_index - 1, d.line_index + 1)

\* C15: every name, institution, field and year of the returned record stands
\* literally in the text given, within its window: the first 15 lines for
\* the name, the line of the mention and the five above for the institution,
\* the line of the mention and the two next to it for the field and the year.
C15_Literal ==
    pc = "done" =>
        /\ record_name # <<>> => OccursIn(record_name, text, 0, NameWindow - 1)
        /\ \A k \in 1..Len(record_degrees) : DegreeLiteral(record_degrees[k], text)

(***************************************************************************)
(* utils.py: the row of the output table built from a record.  A cell is   *)
(* the value put into it; the empty string is the empty value of the kind  *)
(* of the column (no tokens, no year, no label, no notes).  The notes cell *)
(* is the notes with the separator "; " between them.                      *)
(***************************************************************************)
CSV_COLUMNS ==
    << "person_name", "cv_filename",
       "undergrad_1_degree", "undergrad_1_major", "undergrad_1_school",
       "undergrad_1_year",
       "undergrad_2_degree", "undergrad_2_major", "undergrad_2_school",
       "undergrad_2_year",
       "masters_1_degree", "masters_1_major", "masters_1_school",
       "masters_1_year",
       "masters_2_degree", "masters_2_major", "masters_2_school",
       "masters_2_year",
       "phd_degree", "phd_major", "phd_school", "phd_year",
       "notes" >>

\* the columns of the i-th degree of a level: f'{level}_{i}_degree' and so on
Slot(degree, major, school, year) ==
    [degree |-> degree, major |-> major, school |-> school, year |-> year]

UNDERGRAD_SLOTS ==
    << Slot("undergrad_1_degree", "undergrad_1_major", "undergrad_1_school",
            "undergrad_1_year"),
       Slot("undergrad_2_degree", "undergrad_2_major", "undergrad_2_school",
            "undergrad_2_year") >>

MASTERS_SLOTS ==
    << Slot("masters_1_degree", "masters_1_major", "masters_1_school",
            "masters_1_year"),
       Slot("masters_2_degree", "masters_2_major", "masters_2_school",
            "masters_2_year") >>

PHD_SLOTS == << Slot("phd_degree", "phd_major", "phd_school", "phd_year") >>

AllSlots == UNDERGRAD_SLOTS \o MASTERS_SLOTS \o PHD_SLOTS

\* '' in a column
Blank(col) ==
    IF \E k \in 1..Len(AllSlots) : AllSlots[k].degree = col THEN ""
    ELSE IF \E k \in 1..Len(AllSlots) : AllSlots[k].year = col THEN NoYear
    ELSE IF col = "cv_filename" THEN ""
    ELSE <<>>

\* row = {col: '' for col in CSV_COLUMNS}
BlankRow == [col \in {CSV_COLUMNS[k] : k \in 1..Len(CSV_COLUMNS)} |-> Blank(col)]

\* the four assignments of one turn of a loop over the degrees of a level
FillSlot(r, slot, degree) ==
    [r EXCEPT ![slot.degree] = degree.degree_type,
              ![slot.major] = degree.field,
              ![slot.school] = degree.institution,
              ![slot.year] = degree.year]

\* for i, degree in enumerate(shown, start=1): the turns from i on
RECURSIVE FillSlots(_, _, _, _)
FillSlots(r, slots, shown, i) ==
    IF i > Len(shown) THEN r
    ELSE FillSlots(FillSlot(r, slots[i], shown[i]), slots, shown, i + 1)

\* a variant of degrees[:2] that shows one degree
FirstOnly(degrees_of_level) == Take(degrees_of_level, 1)

\* undergrad_degrees[:2], masters_degrees[:2]
FirstTwo(degrees_of_level) == Take(degrees_of_level, 2)

\* the notes about degrees that have no column; the numbers are part of
\* the note
OverflowNote(count, level) == <<count, level>>

OverflowNotes(undergrad, masters, phd) ==
    (IF Len(undergrad) > 2
     THEN <<OverflowNote(Len(undergrad), "undergrad degrees found, only first 2 shown")>>
     ELSE <<>>)
    \o (IF Len(masters) > 2
        THEN <<OverflowNote(Len(masters), "masters degrees found, only first 2 shown")>>
        ELSE <<>>)
    \o (IF Len(phd) > 1
        THEN <<OverflowNote(Len(phd), "PhD degrees found, only first shown")>>
        ELSE <<>>)

\* '; '.join(notes)
RECURSIVE JoinNotes(_)
JoinNotes(notes) ==
    IF notes = <<>> THEN <<>>
    ELSE IF Len(notes) = 1 THEN <<notes[1]>>
    ELSE <<notes[1], "; ">> \o JoinNotes(Tail(notes))

\* cell.split('; '), no notes for the empty cell
RECURSIVE SplitNotes(_)
SplitNotes(cell) ==
    IF cell = <<>> THEN <<>>
    ELSE IF Len(cell) = 1 THEN <<cell[1]>>
    ELSE <<cell[1]>> \o SplitNotes(Slice(cell, 3, Len(cell)))

\* the row with the degrees of the three levels filled in
FilledRow(r, undergrad, masters, phd) ==
    FillSlots(FillSlots(FillSlots(r, UNDERGRAD_SLOTS, FirstTwo(undergrad), 1),
                        MASTERS_SLOTS, FirstTwo(masters), 1),
              PHD_SLOTS, Take(phd, 1), 1)

RowOfLevels(rec, undergrad, masters, phd) ==
    [FilledRow([BlankRow EXCEPT !["person_name"] = rec.name,
                                !["cv_filename"] = rec.cv_filename],
               undergrad, masters, phd)
        EXCEPT !["notes"] =
            JoinNotes(rec.notes \o OverflowNotes(undergrad, masters, phd))]

build_csv_row(rec) ==
    RowOfLevels(rec, OfLevel(rec.degrees, "undergrad"),
                OfLevel(rec.degrees, "masters"), OfLevel(rec.degrees, "phd"))

(***************************************************************************)
(* build_csv_row on records of every shape: up to three degrees of the     *)
(* undergraduate and of the master's level and up to two doctorates, so    *)
(* that records beyond the columns of the table are among them.            *)
(***************************************************************************)
D_BS == Degree("B.S.", <<W("Physics")>>, <<W("MIT")>>, 1999, "undergrad", 0)
D_BA == Degree("B.A.", <<W("History")>>, <<W("Yale"), SP, W("University")>>,
               NoYear, "undergrad", 1)
D_AB == Degree("A.B.", <<>>, <<W("Brown"), SP, W("University")>>, 1995,
               "undergrad", 2)
D_MBA == Degree("MBA", <<>>, <<W("Harvard"), SP, W("University")>>, 2038,
                "masters", 3)
D_MS == Degree("M.S.", <<W("AI")>>, <<W("Wharton")>>, 2008, "masters", 4)
D_MA == Degree("M.A.", <<W("Mc"), SP, W("Gill")>>,
               <<W("Mc"), SP, W("Gill"), SP, W("University")>>, 2001,
               "masters", 5)
D_PhD == Degree("Ph.D.", <<W("Economics")>>,
                <<W("University"), SP, W("of"), SP, W("Chicago")>>, 2012,
                "phd", 6)
D_PhDFinance == Degree("Ph.D.", <<W("Finance")>>, <<W("Wharton")>>, NoYear,
                       "phd", 7)

\* the lists without repetition of the members of S
Lists(S) ==
    UNION {{s \in [1..n -> S] : \A i, j \in 1..n : i # j => s[i] # s[j]} :
              n \in 0..Cardinality(S)}

RowNames == {<<>>, <<W("Jane"), SP, W("Doe")>>}

RowNotes ==
    { <<>>,
      <<"NO EDUCATION FOUND (unexpected)">>,
      <<"No text provided">>,
      <<"ERROR: Could not extract text from PDF">>,
      <<"NO EDUCATION FOUND (unexpected)",
        "VALIDATION: Same institution appears for multiple degree levels">> }

\* the degrees of a record, the levels in either order
RowDegrees ==
    UNION {{u \o m \o p, p \o m \o u} :
              <<u, m, p>> \in Lists({D_BS, D_BA, D_AB})
                              \X Lists({D_MBA, D_MS, D_MA})
                              \X Lists({D_PhD, D_PhDFinance})}

RowInit ==
    /\ text = EmptyText
    /\ filename \in Filenames
    /\ order = MitFirst
    /\ pc = "done"
    /\ lines = <<>>
    /\ degree_matches = <<>>
    /\ reads = {}
    /\ degrees = <<>>
    /\ unique = <<>>
    /\ selected = <<>>
    /\ record_name \in RowNames
    /\ record_cv_filename = filename
    /\ record_degrees \in RowDegrees
    /\ record_notes \in RowNotes
    /\ PipelineIdle

\* row = build_csv_row(record)
BuildRow ==
    /\ pc = "done"
    /\ row' = build_csv_row(Record(record_name, record_cv_filename,
                                   record_degrees, record_notes))
    /\ pc' = "written"
    /\ UNCHANGED <<input_vars, local_vars, record_vars, directory, pdf_files,
                   records, errors>>

RowNext == BuildRow

RowSpec == RowInit /\ [][RowNext]_vars

\* the record has no more degrees than the table has columns for
WithinColumns ==
    /\ Len(OfLevel(record_degrees, "undergrad")) <= MaxUndergrad
    /\ Len(OfLevel(record_degrees, "masters")) <= MaxMasters
    /\ Len(OfLevel(record_degrees, "phd")) <= MaxPhd

\* slot i of a level holds the i-th degree of the level, and is blank when
\* the level has fewer degrees
SlotHolds(slots, of_level) ==
    \A i \in 1..Len(slots) :
        IF i <= Len(of_level)
        THEN /\ row[slots[i].degree] = of_level[i].degree_type
             /\ row[slots[i].major] = of_level[i].field
             /\ row[slots[i].school] = of_level[i].institution
             /\ row[slots[i].year] = of_level[i].year
        ELSE /\ row[slots[i].degree] = ""
             /\ row[slots[i].major] = <<>>
             /\ row[slots[i].school] = <<>>
             /\ row[slots[i].year] = NoYear

\* C16: for a record with at most 2 undergraduate, 2 master's and 1
\* doctoral degree (no degrees and no name included) build_csv_row returns
\* a row with exactly the declared columns, the i-th degree of a level in
\* slot i of the level with its type, field, institution and year, every
\* unused column blank, the name and the file name in their columns, and
\* the notes of the record, and nothing else, in the notes column.
C16_Lossless ==
    (pc = "written" /\ WithinColumns) =>
        /\ DOMAIN row = {CSV_COLUMNS[k] : k \in 1..Len(CSV_COLUMNS)}
        /\ row["person_name"] = record_name
        /\ row["cv_filename"] = record_cv_filename
        /\ SlotHolds(UNDERGRAD_SLOTS, OfLevel(record_degrees, "undergrad"))
        /\ SlotHolds(MASTERS_SLOTS, OfLevel(record_degrees, "masters"))
        /\ SlotHolds(PHD_SLOTS, OfLevel(record_degrees, "phd"))
        /\ SplitNotes(row["notes"]) = record_notes

\* the row of a record that fills every slot, doctorate first, with two notes
C16_Witness ==
    /\ pc = "written"
    /\ Len(record_degrees) = 5
    /\ WithinColumns
    /\ record_degrees[1].level = "phd"
    /\ Len(record_notes) = 2
    /\ row["undergrad_2_school"] # <<>>
    /\ row["masters_2_degree"] # ""
    /\ row["phd_year"] # NoYear

\* the row of a record without a name, degrees and notes: every column
\* but the file name is blank
C16_WitnessEmpty ==
    /\ pc = "written"
    /\ record_name = <<>>
    /\ record_degrees = <<>>
    /\ record_notes = <<>>
    /\ \A k \in 1..Len(CSV_COLUMNS) :
           CSV_COLUMNS[k] # "cv_filename" => row[CSV_COLUMNS[k]] = Blank(CSV_COLUMNS[k])

(***************************************************************************)
(* run_pipeline.py: the loop over the PDF files of the input directory.    *)
(* A file is its name and what reading it gives: no text (None), a text,   *)
(* or an exception raised while it is processed.                           *)
(***************************************************************************)
PdfNames == {"cv1.pdf", "cv2.pdf", "cv3.pdf"}

\* the order of the names as strings
NameRank == [ n \in PdfNames |->
                CASE n = "cv1.pdf" -> 1 [] n = "cv2.pdf" -> 2 [] n = "cv3.pdf" -> 3 ]

\* the texts read from the files: none, one without a degree, one with two
\* degrees whose institution may be the same, one with a single degree
PipelineTexts ==
    { EmptyText, <<L_Name>>, <<L_BsMit, L_MsAi>>, <<L_Name, L_PhdChicago>> }

PdfFile(name, outcome, txt) == [name |-> name, outcome |-> outcome, text |-> txt]

Contents ==
    {PdfFile("", "none", EmptyText), PdfFile("", "raises", EmptyText)}
    \cup {PdfFile("", "text", t) : t \in PipelineTexts}

\* the directories: each name absent or present with one content
Directories ==
    UNION {{{PdfFile(n, c[n].outcome, c[n].text) : n \in S} : c \in [S -> Contents]} :
              S \in SUBSET PdfNames}

\* pdf_files.sort(key=lambda p: p.name), the least name first
RECURSIVE SortByName(_)
SortByName(files) ==
    IF files = {} THEN <<>>
    ELSE LET first == CHOOSE f \in files :
                          \A g \in files : NameRank[f.name] <= NameRank[g.name]
         IN  <<first>> \o SortByName(files \ {first})

get_pdf_files(dir) == SortByName(dir)

\* institutions_by_level[level], lower-cased
InstitutionsOfLevel(degrees_found, level) ==
    {LowerAll(degrees_found[k].institution) :
        k \in {j \in 1..Len(degrees_found) :
                  /\ degrees_found[j].level = level
                  /\ degrees_found[j].institution # <<>>}}

\* some institution stands under two levels
SameInstitutionTwice(degrees_found) ==
    \E k, j \in 1..Len(degrees_found) :
        /\ degrees_found[k].level # degrees_found[j].level
        /\ LowerAll(degrees_found[k].institution)
               \in InstitutionsOfLevel(degrees_found, degrees_found[j].level)
        /\ degrees_found[k].institution # <<>>

validate_record(rec) ==
    IF SameInstitutionTwice(rec.degrees)
    THEN <<"Same institution appears for multiple degree levels">>
    ELSE <<>>

\* f"VALIDATION: {warning}" for the one warning there is
ValidationNotes(warnings) ==
    IF warnings = <<>> THEN <<>>
    ELSE <<"VALIDATION: Same institution appears for multiple degree levels">>

NoError == ""

\* the result of process_single_cv: {'record': ..., 'error': ...}
Result(rec, error) == [record |-> rec, error |-> error]

WithNotes(rec, notes) == [rec EXCEPT !.notes = @ \o notes]

\* a variant of process_single_cv whose records of failures carry no label
process_single_cv_unlabelled(file, ord) ==
    IF file.outcome = "raises"
    THEN Result(Record(<<>>, "", <<>>, <<"EXCEPTION: RuntimeError: failed">>),
                "RuntimeError: failed")
    ELSE IF file.outcome = "none" \/ file.text = EmptyText
    THEN Result(Record(<<>>, "", <<>>,
                       <<"ERROR: Could not extract text from PDF">>),
                "No text extracted")
    ELSE Result(WithNotes(parse_record(file.text, file.name, ord),
                    ValidationNotes(validate_record(
                        parse_record(file.text, file.name, ord)))),
                NoError)

process_single_cv(file, ord) ==
    IF file.outcome = "raises"
    THEN Result(Record(<<>>, file.name, <<>>,
                       <<"EXCEPTION: RuntimeError: failed">>),
                "RuntimeError: failed")
    ELSE IF file.outcome = "none" \/ file.text = EmptyText
    THEN Result(Record(<<>>, file.name, <<>>,
                       <<"ERROR: Could not extract text from PDF">>),
                "No text extracted")
    ELSE Result(WithNotes(parse_record(file.text, file.name, ord),
                    ValidationNotes(validate_record(
                        parse_record(file.text, file.name, ord)))),
                NoError)

\* if error: errors.append((pdf_path.name, error))
ErrorsWith(errs, name, error) ==
    IF error # NoError THEN Append(errs, <<name, error>>) ELSE errs

PipelineInit ==
    /\ text = EmptyText
    /\ filename = ""
    /\ order \in Orders
    /\ pc = "pipeline"
    /\ lines = <<>>
    /\ degree_matches = <<>>
    /\ reads = {}
    /\ degrees = <<>>
    /\ unique = <<>>
    /\ selected = <<>>
    /\ record_name = <<>>
    /\ record_cv_filename = ""
    /\ record_degrees = <<>>
    /\ record_notes = <<>>
    /\ row = <<>>
    /\ directory \in Directories
    /\ pdf_files = <<>>
    /\ records = <<>>
    /\ errors = <<>>

\* pdf_files = get_pdf_files(INPUT_DIR); if not pdf_files: sys.exit(1)
NoPdfFiles ==
    /\ pc = "pipeline"
    /\ get_pdf_files(directory) = <<>>
    /\ pc' = "exit"
    /\ UNCHANGED <<input_vars, local_vars, record_vars, pipeline_vars>>

GetPdfFiles ==
    /\ pc = "pipeline"
    /\ get_pdf_files(directory) # <<>>
    /\ pdf_files' = get_pdf_files(directory)
    /\ pc' = "loop"
    /\ UNCHANGED <<input_vars, local_vars, record_vars, row, directory,
                   records, errors>>

\* one turn of the loop over pdf_files
ProcessSingleCv ==
    /\ pc = "loop"
    /\ Len(records) < Len(pdf_files)
    /\ records' = Append(records,
           process_single_cv(pdf_files[Len(records) + 1], order).record)
    /\ errors' = ErrorsWith(errors, pdf_files[Len(records) + 1].name,
           process_single_cv(pdf_files[Len(records) + 1], order).error)
    /\ UNCHANGED <<input_vars, pc, local_vars, record_vars, row, directory,
                   pdf_files>>

\* write_csv(records, OUTPUT_CSV): a row for every record, row being the
\* last one built; return records
WriteCsv ==
    /\ pc = "loop"
    /\ Len(records) = Len(pdf_files)
    /\ row' = build_csv_row(records[Len(records)])
    /\ pc' = "written"
    /\ UNCHANGED <<input_vars, local_vars, record_vars, directory, pdf_files,
                   records, errors>>

PipelineNext ==
    \/ NoPdfFiles
    \/ GetPdfFiles
    \/ ProcessSingleCv
    \/ WriteCsv

PipelineSpec == PipelineInit /\ [][PipelineNext]_vars

\* reading or parsing the file gave no record of degrees
Failed(file) ==
    file.outcome \in {"none", "raises"} \/ file.text = EmptyText

\* the entries of errors for a file name
ErrorsFor(name) == {k \in 1..Len(errors) : errors[k][1] = name}

\* the record of a file processed alone, whatever else the directory holds
RecordAlone(file, ord) ==
    IF Failed(file)
    THEN Record(<<>>, file.name, <<>>,
                IF file.outcome = "raises"
                THEN <<"EXCEPTION: RuntimeError: failed">>
                ELSE <<"ERROR: Could not extract text from PDF">>)
    ELSE WithNotes(parse_record(file.text, file.name, ord),
                   ValidationNotes(validate_record(
                       parse_record(file.text, file.name, ord))))

\* C17: every file processed gives a record labelled with its file name,
\* whatever happens while it is processed: after k turns of the loop of
\* run_pipeline the list of records holds k records, the k-th for the k-th
\* file in the order of the file names; a file whose text could not be read
\* or whose processing raised gives a record without degrees with one error
\* note and exactly one entry in errors; a file that was processed gives no
\* entry in errors; and the record of a file is the one it gets when it is
\* processed alone.  At the end there are as many records as files.
C17_Isolation ==
    pc \in {"loop", "written"} =>
        /\ Len(pdf_files) = Cardinality(directory)
        /\ \A k \in 1..(Len(pdf_files) - 1) :
               NameRank[pdf_files[k].name] < NameRank[pdf_files[k + 1].name]
        /\ Len(records) <= Len(pdf_files)
        /\ pc = "written" => Len(records) = Len(pdf_files)
        /\ \A k \in 1..Len(records) :
               /\ records[k].cv_filename = pdf_files[k].name
               /\ records[k] = RecordAlone(pdf_files[k], order)
               /\ Cardinality(ErrorsFor(pdf_files[k].name))
                      = (IF Failed(pdf_files[k]) THEN 1 ELSE 0)
               /\ Failed(pdf_files[k]) =>
                      /\ records[k].degrees = <<>>
                      /\ Len(records[k].notes) = 1
        /\ Len(errors) = Cardinality({k \in 1..Len(records) : Failed(pdf_files[k])})

\* three files were processed: the first could not be read, the second
\* raised, the third gave a record with degrees; two entries in errors
C17_Witness ==
    /\ pc = "written"
    /\ Len(records) = 3
    /\ pdf_files[1].outcome = "none"
    /\ pdf_files[2].outcome = "raises"
    /\ records[3].degrees # <<>>
    /\ Len(errors) = 2
    /\ records[1].cv_filename = "cv1.pdf"
    /\ records[2].notes = <<"EXCEPTION: RuntimeError: failed">>

(***************************************************************************)
(* select_best_degrees on candidate lists of every shape: lists without    *)
(* repetition of up to MaxCandidates degrees, with and without a year and, *)
(* for the doctorates, with and without an institution.                    *)
(***************************************************************************)
D_PhDEarly == Degree("Ph.D.", <<W("Finance")>>, <<W("MIT")>>, 2008, "phd", 8)
D_PhDNoSchool == Degree("Ph.D.", <<W("Economics")>>, <<>>, 2001, "phd", 9)

MaxCandidates == 4

Candidates ==
    {D_BS, D_BA, D_AB, D_MBA, D_MS, D_MA, D_PhD, D_PhDFinance, D_PhDEarly,
     D_PhDNoSchool}

CandidateLists ==
    UNION {{s \in [1..n -> Candidates] : \A i, j \in 1..n : i # j => s[i] # s[j]} :
              n \in 0..MaxCandidates}

SelectInit ==
    /\ text = <<L_Name>>
    /\ filename = "cv.pdf"
    /\ order = MitFirst
    /\ pc = "select"
    /\ lines = <<L_Name>>
    /\ degree_matches = <<>>
    /\ reads = {}
    /\ degrees \in CandidateLists
    /\ unique = degrees
    /\ selected = <<>>
    /\ record_name = <<>>
    /\ record_cv_filename = filename
    /\ record_degrees = <<>>
    /\ record_notes = <<>>
    /\ PipelineIdle

SelectNext ==
    \/ SelectBest
    \/ Finish

SelectSpec == SelectInit /\ [][SelectNext]_vars

\* the year of a is not after the year of b, a missing year being after
\* every year
NotLater(a, b) ==
    IF a.year = NoYear THEN b.year = NoYear
    ELSE b.year = NoYear \/ a.year <= b.year

Members(seq) == {seq[k] : k \in 1..Len(seq)}

AtMost(n, limit) == IF n < limit THEN n ELSE limit

\* the kept entries of a level are the at most 'limit' candidates of the
\* level with the smallest years
SmallestYearsKept(level, limit) ==
    /\ Members(OfLevel(selected, level)) \subseteq Members(OfLevel(unique, level))
    /\ Len(OfLevel(selected, level)) = AtMost(Len(OfLevel(unique, level)), limit)
    /\ \A x \in Members(OfLevel(selected, level)) :
           /\ \A y \in Members(OfLevel(unique, level))
                         \ Members(OfLevel(selected, level)) : NotLater(x, y)
           /\ x.year = NoYear =>
                  Cardinality({y \in Members(OfLevel(unique, level)) :
                                  y.year # NoYear}) < limit

Completeness(d) ==
    (IF d.institution # <<>> THEN 1 ELSE 0) + (IF d.year # NoYear THEN 1 ELSE 0)

\* the doctorate kept has the greatest completeness and, among those of its
\* completeness, the earliest year
BestPhdKept ==
    /\ Members(OfLevel(selected, "phd")) \subseteq Members(OfLevel(unique, "phd"))
    /\ Len(OfLevel(selected, "phd")) = AtMost(Len(OfLevel(unique, "phd")), 1)
    /\ \A p \in Members(OfLevel(selected, "phd")) :
           \A q \in Members(OfLevel(unique, "phd")) :
               /\ Completeness(p) >= Completeness(q)
               /\ Completeness(p) = Completeness(q) => NotLater(p, q)

\* C18: of the deduplicated candidates, select_best_degrees keeps for the
\* undergraduate and for the master's level the at most 2 with the smallest
\* years, a candidate without a year only if fewer than 2 of its level have
\* one; it keeps one doctorate, of the greatest completeness score
\* (institution +1, year +1) and, among equal scores, of the earliest year.
C18_SelectionPolicy ==
    pc \in {"sort", "done"} =>
        /\ SmallestYearsKept("undergrad", 2)
        /\ SmallestYearsKept("masters", 2)
        /\ BestPhdKept
        /\ Len(selected) = Len(OfLevel(selected, "undergrad"))
                           + Len(OfLevel(selected, "masters"))
                           + Len(OfLevel(selected, "phd"))

\* three undergraduate candidates, the one without a year listed first and
\* dropped for the two with a year
C18_Witness ==
    /\ pc = "sort"
    /\ Len(unique) >= 3
    /\ unique[1] = D_BA
    /\ Members(selected) = {D_BS, D_AB}

\* two doctorates of equal completeness, one without an institution and one
\* without a year: the one with the year is kept
C18_WitnessPhd ==
    /\ pc = "sort"
    /\ unique = <<D_PhDFinance, D_PhDNoSchool>>
    /\ selected = <<D_PhDNoSchool>>

\* the text whose years gave the year of the mention on the line of index
\* idx: the line itself if it has a year, the tight context otherwise
YearSource(lns, idx) ==
    IF extract_year_strict(lns[idx + 1]) # NoYear THEN lns[idx + 1]
    ELSE TightContext(lns, idx)

\* several free-standing years in range and no range of years
SeveralYears(toks) ==
    /\ Cardinality(StandaloneYears(toks)) >= 2
    /\ \A i \in 1..Len(toks) : RangeRight(toks, i) = 0

\* the free-standing years whose first occurrence in the text has no digit
\* next to it
QualifyingYears(toks) ==
    {i \in StandaloneYears(toks) : ~FirstFindTouchesDigit(toks, toks[i].n)}

FirstYearOf(toks) ==
    IF QualifyingYears(toks) = {} THEN NoYear
    ELSE toks[Least(QualifyingYears(toks))].n

LastYearOf(toks) ==
    IF QualifyingYears(toks) = {} THEN NoYear
    ELSE toks[Greatest(QualifyingYears(toks))].n

\* C19 (as stated): when the text given to the year extractor for a mention
\* holds several independent years in range and no range, the year of the
\* degree is the last of them, unless the text holds an award, honor or
\* alumnus marker, in which case it is the first of them.
C19_FirstYearIfMarked ==
    \A k \in 1..Len(degrees) :
        SeveralYears(YearSource(lines, degrees[k].line_index)) =>
            degrees[k].year =
                (IF HasMarker(YearSource(lines, degrees[k].line_index))
                 THEN FirstYearOf(YearSource(lines, degrees[k].line_index))
                 ELSE LastYearOf(YearSource(lines, degrees[k].line_index)))

\* C19 (amended): when the text given to the year extractor for a mention
\* holds several independent years in range and no range, the year of the
\* degree is the last of them (of those whose first occurrence has no digit
\* next to it), whether or not the text holds an award, honor or alumnus
\* marker.
C19_LastYearAlways ==
    \A k \in 1..Len(degrees) :
        SeveralYears(YearSource(lines, degrees[k].line_index)) =>
            degrees[k].year = LastYearOf(YearSource(lines, degrees[k].line_index))

\* a degree whose year came from a text with two years, 1999 first and 2001
\* last, and the marker "Alumnus Award": its year is 2001
C19_Witness ==
    \E k \in 1..Len(degrees) :
        /\ SeveralYears(YearSource(lines, degrees[k].line_index))
        /\ HasMarker(YearSource(lines, degrees[k].line_index))
        /\ FirstYearOf(YearSource(lines, degrees[k].line_index)) = 1999
        /\ degrees[k].year = 2001

\* the end of the leftmost range of years of a text that has one
RangeEndOf(toks) ==
    First4(toks[RangeRight(toks, Least({i \in 1..Len(toks) : RangeRight(toks, i) # 0}))].n)

HasRange(toks) == \E i \in 1..Len(toks) : RangeRight(toks, i) # 0

YearOfJoined(lns, idx) ==
    IF HasRange(TightContext(lns, idx)) THEN RangeEndOf(TightContext(lns, idx))
    ELSE IF YearBelow(lns, idx) # NoYear /\ ~HasRange(lns[idx + 2])
    THEN LastYearOf(lns[idx + 2])
    ELSE LastYearOf(TightContext(lns, idx))

C20_WitnessRange ==
    \E k \in 1..Len(degrees) :
        /\ extract_year_strict(lines[degrees[k].line_index + 1]) = NoYear
        /\ YearAbove(lines, degrees[k].line_index) = 2012
        /\ YearBelow(lines, degrees[k].line_index) = 2038
        /\ degrees[k].year = 2012

(***************************************************************************)
(* parse_education on texts with numerals of more than four digits.        *)
(***************************************************************************)
\* "MBA, Harvard University, 12008"
L_LongNumeral ==
    <<W("MBA"), P(","), SP, W("Harvard"), SP, W("University"), P(","), SP,
      N(12008)>>

\* "MBA, Harvard University, 12008-20125"
L_LongRange ==
    <<W("MBA"), P(","), SP, W("Harvard"), SP, W("University"), P(","), SP,
      N(12008), P("-"), N(20125)>>

\* "MBA, Harvard University, 12008, 2008"
L_LongThenYear ==
    <<W("MBA"), P(","), SP, W("Harvard"), SP, W("University"), P(","), SP,
      N(12008), P(","), SP, N(2008)>>

YearCorpus ==
    {L_Blank, L_BaYale, L_MbaHarvard, L_LongNumeral, L_LongRange,
     L_LongThenYear}

MaxYearLines == 2

YearTexts == UNION {[1..n -> YearCorpus] : n \in 1..MaxYearLines}

YearInit ==
    /\ text \in YearTexts
    /\ filename \in Filenames
    /\ order \in Orders
    /\ pc = "start"
    /\ lines = <<>>
    /\ degree_matches = <<>>
    /\ reads = {}
    /\ degrees = <<>>
    /\ unique = <<>>
    /\ selected = <<>>
    /\ record_name = <<>>
    /\ record_cv_filename = filename
    /\ record_degrees = <<>>
    /\ record_notes = <<>>
    /\ PipelineIdle

YearSpec == YearInit /\ [][Next]_vars

\* the year stands in the text given as a numeral of its own, four digits
\* with no digit before or after, on the line of the mention or next to it
BareYearNear(year, txt, idx) ==
    \E i \in (idx - 1)..(idx + 1) :
        /\ i >= 0
        /\ i < Len(txt)
        /\ \E j \in 1..Len(txt[i + 1]) : txt[i + 1][j] = N(year)

\* C21: the year of a returned degree is a four-digit numeral of the text
\* with no digit directly before or after it, never four digits out of a
\* longer numeral (not as the end of a range, not after the preprocessing
\* either); and a free-standing year in range on the line of the mention is
\* not lost because its digits stand earlier inside a longer numeral.
C21_BareYearsOnly ==
    pc = "done" =>
        \A k \in 1..Len(record_degrees) :
            /\ record_degrees[k].year # NoYear =>
                   BareYearNear(record_degrees[k].year, text,
                                record_degrees[k].line_index)
            /\ StandaloneYears(text[record_degrees[k].line_index + 1]) # {} =>
                   record_degrees[k].year # NoYear

(***************************************************************************)
(* parse_education on texts long enough for the look-back to end: up to    *)
(* MaxLookBackLines lines, of which at most MaxWritten are not blank.      *)
(***************************************************************************)
\* "Education, Yale University"
L_Education ==
    <<W("Education"), P(","), SP, W("Yale"), SP, W("University")>>

\* "Research, Yale University"
L_Research ==
    <<W("Research"), P(","), SP, W("Yale"), SP, W("University")>>

LookBackCorpus == {L_Blank, L_Wharton, L_PhdFinance, L_Education, L_Research}

MaxLookBackLines == 7
MaxWritten == 3

LookBackTexts ==
    UNION {{t \in [1..n -> LookBackCorpus] :
               Cardinality({i \in 1..n : t[i] # L_Blank}) <= MaxWritten} :
              n \in 1..MaxLookBackLines}

LookBackInit ==
    /\ text \in LookBackTexts
    /\ filename = "cv.pdf"
    /\ order \in Orders
    /\ pc = "start"
    /\ lines = <<>>
    /\ degree_matches = <<>>
    /\ reads = {}
    /\ degrees = <<>>
    /\ unique = <<>>
    /\ selected = <<>>
    /\ record_name = <<>>
    /\ record_cv_filename = filename
    /\ record_degrees = <<>>
    /\ record_notes = <<>>
    /\ PipelineIdle

LookBackSpec == LookBackInit /\ [][Next]_vars

\* the institution of the i-th line above the line of index idx
InstitutionAbove(lns, idx, i, ord) ==
    extract_institution_strict(Strip(lns[idx - i + 1]), ord)

\* the places, counted in lines above the mention, where the walk finds an
\* institution: at most 5 above, none nearer has an institution, and
\* neither the line nor a nearer one holds one of the headers
FoundAbove(lns, idx, headers, ord) ==
    {i \in 1..5 :
        /\ i <= idx
        /\ InstitutionAbove(lns, idx, i, ord) # <<>>
        /\ \A j \in 1..(i - 1) : InstitutionAbove(lns, idx, j, ord) = <<>>
        /\ \A j \in 1..i : ~ContainsAny(Strip(lns[idx - j + 1]), headers)}

\* the institution of a mention: that of its own line, else that of the
\* walk, else none
InstitutionFor(lns, idx, headers, ord) ==
    IF extract_institution_strict(lns[idx + 1], ord) # <<>>
    THEN extract_institution_strict(lns[idx + 1], ord)
    ELSE IF FoundAbove(lns, idx, headers, ord) = {} THEN <<>>
    ELSE InstitutionAbove(lns, idx, Least(FoundAbove(lns, idx, headers, ord)), ord)

\* the institution of every degree kept is the one the search with these
\* headers gives, and once the loop is over the mentions kept are those for
\* which it gives one
SearchedWith(headers) ==
    /\ \A k \in 1..Len(degrees) :
           degrees[k].institution =
               InstitutionFor(lines, degrees[k].line_index, headers, order)
    /\ pc = "select" =>
           \A idx \in 0..(Len(lines) - 1) :
               Scanned(lines[idx + 1]) # 0 =>
                   ((\E k \in 1..Len(degrees) : degrees[k].line_index = idx)
                        <=> InstitutionFor(lines, idx, headers, order) # <<>>)

\* C22 (as stated): the institution of a mention is that of its own line;
\* if the line has none, the lines above are walked, nearest first, at most
\* 5, and the walk stops at the first line that holds a section-header
\* token (education, experience, employment, publications, research,
\* teaching, awards, honors, service, references, grants, ...): the
\* institution is never that of such a line, of a line above it, of a line
\* more than 5 above or of a line below.
C22_StopsAtSectionHeaders == SearchedWith(SECTION_HEADERS)

\* C22 (amended): the same search, the walk stopping at the first line that
\* holds one of employment, experience, publications, research, teaching,
\* awards, service, references, grants; a line with education, honors,
\* activities, affiliations, memberships or certifications does not stop it.
C22_StopsAtContextHeaders == SearchedWith(CONTEXT_SECTION_HEADERS)

\* a doctorate on the sixth line whose institution is that of the first
\* line, five above, the lines between being blank
C22_Witness ==
    /\ pc = "select"
    /\ Len(lines) = 6
    /\ Len(degrees) = 1
    /\ degrees[1].line_index = 5
    /\ degrees[1].institution = <<W("Wharton")>>
    /\ FoundAbove(lines, 5, CONTEXT_SECTION_HEADERS, order) = {5}

\* a doctorate on the seventh line, six below the one line with an
\* institution: it is not kept
C22_WitnessTooFar ==
    /\ pc = "select"
    /\ Len(lines) = 7
    /\ lines[1] = L_Wharton
    /\ lines[7] = L_PhdFinance
    /\ \A i \in 2..6 : lines[i] = L_Blank
    /\ degrees = <<>>

\* a doctorate below a line with "Research" and an institution, itself
\* below a line with an institution: it is not kept
C22_WitnessHeader ==
    /\ pc = "select"
    /\ lines = <<L_Wharton, L_Research, L_PhdFinance>>
    /\ degrees = <<>>

\* a doctorate whose institution is that of the line above, which holds
\* "Education"
C22_WitnessEducation ==
    /\ pc = "select"
    /\ lines = <<L_Education, L_PhdFinance>>
    /\ Len(degrees) = 1
    /\ degrees[1].institution = <<W("Yale"), SP, W("University")>>

(***************************************************************************)
(* parse_education on texts with a line on which the first pattern that    *)
(* matches gives a candidate that is not valid.                            *)
(***************************************************************************)
\* "Assistant Professor Yale University, Harvard School"
L_ProfYaleHarvard ==
    <<W("Assistant"), SP, W("Professor"), SP, W("Yale"), SP, W("University"),
      P(","), SP, W("Harvard"), SP, W("School")>>

\* "Assistant Professor Yale University"
L_ProfYale ==
    <<W("Assistant"), SP, W("Professor"), SP, W("Yale"), SP, W("University")>>

InstitutionCorpus ==
    {L_Blank, L_PhdFinance, L_Wharton, L_BaYale, L_ProfYaleHarvard, L_ProfYale}

MaxInstitutionLines == 2

InstitutionTexts ==
    UNION {[1..n -> InstitutionCorpus] : n \in 1..MaxInstitutionLines}

InstitutionInit ==
    /\ text \in InstitutionTexts
    /\ filename \in Filenames
    /\ order \in Orders
    /\ pc = "start"
    /\ lines = <<>>
    /\ degree_matches = <<>>
    /\ reads = {}
    /\ degrees = <<>>
    /\ unique = <<>>
    /\ selected = <<>>
    /\ record_name = <<>>
    /\ record_cv_filename = filename
    /\ record_degrees = <<>>
    /\ record_notes = <<>>
    /\ PipelineIdle

InstitutionSpec == InstitutionInit /\ [][Next]_vars

\* the patterns, by number, that match the text
MatchingPatterns(toks) ==
    {p \in 1..Len(InstitutionMatches(toks)) : InstitutionMatches(toks)[p] # <<>>}

\* the patterns that match and whose cleaned candidate is valid
ValidPatterns(toks) ==
    {p \in MatchingPatterns(toks) :
        is_valid_institution(Candidate(toks, InstitutionMatches(toks)[p]))}

CandidateOf(toks, p) == Candidate(toks, InstitutionMatches(toks)[p])

\* the result if the first pattern that matches decides
FirstMatchOn(toks, ord) ==
    IF toks = <<>> THEN <<>>
    ELSE IF FirstKnown(toks, ord) # <<>> THEN FirstKnown(toks, ord)
    ELSE IF MatchingPatterns(toks) = {} THEN <<>>
    ELSE IF Least(MatchingPatterns(toks)) \in ValidPatterns(toks)
    THEN CandidateOf(toks, Least(MatchingPatterns(toks)))
    ELSE <<>>

\* the result if the first pattern with a valid candidate decides
FirstValidOn(toks, ord) ==
    IF toks = <<>> THEN <<>>
    ELSE IF FirstKnown(toks, ord) # <<>> THEN FirstKnown(toks, ord)
    ELSE IF ValidPatterns(toks) = {} THEN <<>>
    ELSE CandidateOf(toks, Least(ValidPatterns(toks)))

\* the lines the institution extractor is given for the mention on the line
\* of index idx: the line itself and the lines of the walk, stripped
GivenLines(lns, idx) ==
    {lns[idx + 1]}
    \cup {Strip(lns[idx - i + 1]) : i \in {j \in 1..LookBackLimit : j <= idx}}

\* the line of the mention and the line directly above it, stripped
NearLines(lns, idx) ==
    {lns[idx + 1]} \cup (IF idx >= 1 THEN {Strip(lns[idx])} ELSE {})

\* every non-empty institution passes the checks of is_valid_institution
AllValid ==
    \A k \in 1..Len(degrees) : is_valid_institution(degrees[k].institution)

\* C23 (as stated): the patterns are tried in a fixed order and the first
\* pattern that matches decides; if its cleaned candidate fails validation
\* the extractor returns the empty string rather than the candidate of a
\* later pattern.  Every non-empty result passes the validation.
C23_FirstMatchDecides ==
    /\ \A k \in 1..Len(degrees) :
           \A l \in GivenLines(lines, degrees[k].line_index) :
               extract_institution_strict(l, order) = FirstMatchOn(l, order)
    /\ AllValid

\* C23 (amended): the patterns are tried in a fixed order and the first
\* pattern whose cleaned candidate passes validation decides; a pattern
\* that matches with a candidate that fails validation is passed over and
\* the later patterns are tried; the result is empty only if no pattern
\* gives a valid candidate.  Every non-empty result passes the validation.
C23_FirstValidDecides ==
    /\ \A k \in 1..Len(degrees) :
           \A l \in GivenLines(lines, degrees[k].line_index) :
               extract_institution_strict(l, order) = FirstValidOn(l, order)
    /\ pc = "select" =>
           \A idx \in 0..(Len(lines) - 1) :
               (Scanned(lines[idx + 1]) # 0
                   /\ \E l \in NearLines(lines, idx) :
                         /\ FirstValidOn(l, order) # <<>>
                         /\ ~ContainsAny(l, CONTEXT_SECTION_HEADERS))
                   => \E k \in 1..Len(degrees) : degrees[k].line_index = idx
    /\ AllValid

\* a doctorate whose institution "Harvard School" is that of the line
\* above, on which "X University" matches first with the candidate
\* "Assistant Professor Yale University", which is not valid
C23_Witness ==
    /\ pc = "select"
    /\ lines = <<L_ProfYaleHarvard, L_PhdFinance>>
    /\ Len(degrees) = 1
    /\ degrees[1].institution = <<W("Harvard"), SP, W("School")>>
    /\ Least(MatchingPatterns(lines[1])) = 2
    /\ ValidPatterns(lines[1]) = {6}

(***************************************************************************)
(* find_degrees_strict on texts with lines that hold the tokens of several *)
(* entries of DEGREE_PATTERNS, lines of blanks only and excluded lines.    *)
(***************************************************************************)
\* " "
L_Spaces ==
    <<SP>>

\* "BA in History, MBA, Yale University"
L_BaMbaYale ==
    <<W("BA"), SP, W("in"), SP, W("History"), P(","), SP, W("MBA"), P(","),
      SP, W("Yale"), SP, W("University")>>

\* "MBA and Ph.D., Harvard University, 2038"
L_MbaPhdHarvard ==
    <<W("MBA"), SP, W("and"), SP, W("Ph"), P("."), W("D"), P("."), P(","),
      SP, W("Harvard"), SP, W("University"), P(","), SP, N(2038)>>

ScanCorpus ==
    {L_Blank, L_Spaces, L_AsstProf, L_Wharton, L_BaMbaYale, L_MbaPhdHarvard}

MaxScanLines == 4

ScanTexts == UNION {[1..n -> ScanCorpus] : n \in 1..MaxScanLines}

ScanInit ==
    /\ text \in ScanTexts
    /\ filename \in Filenames
    /\ order \in Orders
    /\ pc = "start"
    /\ lines = <<>>
    /\ degree_matches = <<>>
    /\ reads = {}
    /\ degrees = <<>>
    /\ unique = <<>>
    /\ selected = <<>>
    /\ record_name = <<>>
    /\ record_cv_filename = filename
    /\ record_degrees = <<>>
    /\ record_notes = <<>>
    /\ PipelineIdle

ScanSpec == ScanInit /\ [][Next]_vars

\* the entries of DEGREE_PATTERNS that match each preprocessed line of
\* ScanCorpus once stripped, and whether an exclusion pattern matches it
ScanLines == {PreprocessLine(c) : c \in ScanCorpus}

MatchingMemo ==
    [l \in ScanLines |->
        {idx \in 1..Len(DEGREE_PATTERNS) : DegreeMatches(Strip(l), idx)}]

VetoMemo == [l \in ScanLines |-> IsExcluded(Strip(l))]

MatchingEntries(line) ==
    IF line \in ScanLines THEN MatchingMemo[line]
    ELSE {idx \in 1..Len(DEGREE_PATTERNS) : DegreeMatches(Strip(line), idx)}

Vetoed(line) ==
    IF line \in ScanLines THEN VetoMemo[line] ELSE IsExcluded(Strip(line))

\* the positions in seq of the mentions of the line of index i
MentionsAt(seq, i) == {k \in 1..Len(seq) : seq[k].line_index = i}

\* the entries of DEGREE_PATTERNS stand in the order doctoral, master's,
\* bachelor's
TableInLevelOrder ==
    \A a, b \in 1..Len(DEGREE_PATTERNS) :
        a < b =>
            LevelOrder(DEGREE_PATTERNS[a].level)
                <= LevelOrder(DEGREE_PATTERNS[b].level)

\* what find_degrees_strict has returned for the line of index i
ScannedAsTable(i) ==
    LET line == lines[i + 1]
        at   == MentionsAt(degree_matches, i)
        hits == MatchingEntries(line)
    IN  IF Strip(line) = <<>> \/ Vetoed(line) \/ hits = {}
        THEN at = {}
        ELSE /\ Cardinality(at) = 1
             /\ \A k \in at :
                    \A idx \in hits :
                        (\A o \in hits : idx <= o) =>
                            /\ degree_matches[k].degree_type
                                   = DEGREE_PATTERNS[idx].display
                            /\ degree_matches[k].level
                                   = DEGREE_PATTERNS[idx].level

\* C24: when find_degrees_strict has returned, a line that is blank once
\* stripped or that an exclusion pattern matches has no mention; any other
\* line has at most one, that of the first entry of DEGREE_PATTERNS (doctoral
\* entries before master's before bachelor's) that matches it.  The mentions
\* stand in strictly increasing line index, and every line index is an
\* index of lines, the list extract_degree_with_context reads.
C24_TokenScanner ==
    /\ TableInLevelOrder
    /\ (pc = "extract" /\ reads = {}) =>
           \A i \in 0..(Len(lines) - 1) : ScannedAsTable(i)
    /\ \A k \in 1..Len(degree_matches) :
           /\ degree_matches[k].line_index \in 0..(Len(lines) - 1)
           /\ k > 1 =>
                  degree_matches[k - 1].line_index
                      < degree_matches[k].line_index

\* find_degrees_strict has returned on a text with a line of blanks, an
\* excluded line that holds a degree token, and two lines on which a later
\* entry of the table matches to the left of the first entry that matches
C24_Witness ==
    /\ pc = "extract"
    /\ reads = {}
    /\ Len(degree_matches) = 2
    /\ degree_matches[1].level = "masters"
    /\ degree_matches[2].level = "phd"
    /\ \E i \in 0..(Len(lines) - 1) :
           /\ MentionsAt(degree_matches, i) # {}
           /\ Cardinality(MatchingEntries(lines[i + 1])) > 1
    /\ \E i \in 0..(Len(lines) - 1) :
           /\ lines[i + 1] # <<>>
           /\ Strip(lines[i + 1]) = <<>>
    /\ \E i \in 0..(Len(lines) - 1) :
           /\ Vetoed(lines[i + 1])
           /\ MatchingEntries(lines[i + 1]) # {}

=============================================================================
